---- MODULE Spec2Model ----
(***************************************************************************)
(* Playwright-agent: the /edit-doc request handlers, platform detection    *)
(* and the auto-instruction dispatcher, modelled as a state machine.       *)
(*                                                                         *)
(* JavaScript strings are sequences of one-character strings, so that      *)
(* includes(), split(), replace(), trim() and toLowerCase() are computed   *)
(* on the characters as the code computes them.                            *)
(***************************************************************************)
EXTENDS Integers, Sequences, FiniteSets, TLC

\* ------------------------------------------------------------------------
\* Bounds
\* ------------------------------------------------------------------------
\* an instruction of the dispatcher specification is a concatenation of at
\* most MaxFrags fragments
MaxFrags == 3

\* ------------------------------------------------------------------------
\* String primitives (String.prototype.*)
\* ------------------------------------------------------------------------
\* the string "ABCDEFGHIJKLMNOPQRSTUVWXYZ"
UpperChars == <<"A","B","C","D","E","F","G","H","I","J","K","L","M","N","O","P","Q","R","S","T","U","V","W","X","Y","Z">>
\* the string "abcdefghijklmnopqrstuvwxyz"
LowerChars == <<"a","b","c","d","e","f","g","h","i","j","k","l","m","n","o","p","q","r","s","t","u","v","w","x","y","z">>

LowerChar(c) ==
  IF \E i \in 1..26 : UpperChars[i] = c
  THEN LowerChars[CHOOSE i \in 1..26 : UpperChars[i] = c]
  ELSE c

\* s.toLowerCase()
ToLowerCase(s) == [i \in 1..Len(s) |-> LowerChar(s[i])]

SetMin(S) == CHOOSE x \in S : \A y \in S : x <= y
SetMax(S) == CHOOSE x \in S : \A y \in S : x >= y

\* p occurs in s starting at index i
StartsAt(s, p, i) ==
  /\ i >= 1
  /\ i + Len(p) - 1 <= Len(s)
  /\ \A k \in 1..Len(p) : s[i + k - 1] = p[k]

\* s.includes(p)
Includes(s, p) == \E i \in 1..(Len(s) - Len(p) + 1) : StartsAt(s, p, i)

\* s.endsWith(p)
EndsWith(s, p) == StartsAt(s, p, Len(s) - Len(p) + 1)

WhiteSpace == {" ", "\n", "\t", "\r"}

\* s.trim()
Trim(s) ==
  LET keep == {i \in 1..Len(s) : s[i] \notin WhiteSpace}
  IN  IF keep = {} THEN <<>> ELSE SubSeq(s, SetMin(keep), SetMax(keep))

\* length of the first alternative of the regex /p1|p2|.../i that matches at
\* index i of the string whose lower-cased form is low (0: no match)
MatchAt(low, pats, i) ==
  LET hits == {k \in 1..Len(pats) : StartsAt(low, pats[k], i)}
  IN  IF hits = {} THEN 0 ELSE Len(pats[SetMin(hits)])

RECURSIVE StripFrom(_, _, _, _)
StripFrom(s, low, pats, i) ==
  IF i > Len(s) THEN <<>>
  ELSE LET m == MatchAt(low, pats, i)
       IN  IF m > 0 THEN StripFrom(s, low, pats, i + m)
           ELSE <<s[i]>> \o StripFrom(s, low, pats, i + 1)

\* s.replace(/p1|p2|.../gi, '')
ReplaceAllCI(s, pats) == StripFrom(s, ToLowerCase(s), pats, 1)

RECURSIVE SplitFrom(_, _, _, _, _)
SplitFrom(s, low, pats, i, cur) ==
  IF i > Len(s) THEN <<cur>>
  ELSE LET m == MatchAt(low, pats, i)
       IN  IF m > 0 THEN <<cur>> \o SplitFrom(s, low, pats, i + m, <<>>)
           ELSE SplitFrom(s, low, pats, i + 1, Append(cur, s[i]))

\* s.split(/p1|p2|.../i)
SplitCI(s, pats) == SplitFrom(s, ToLowerCase(s), pats, 1, <<>>)

\* s.split('\n')
SplitLines(s) == SplitFrom(s, s, << <<"\n">> >>, 1, <<>>)

\* ------------------------------------------------------------------------
\* Keywords of the dispatcher
\* ------------------------------------------------------------------------
\* the string "title"
KwTitle == <<"t","i","t","l","e">>
\* the string "heading"
KwHeading == <<"h","e","a","d","i","n","g">>
\* the string "list"
KwList == <<"l","i","s","t">>
\* the string "bullet"
KwBullet == <<"b","u","l","l","e","t">>
\* the string "bold"
KwBold == <<"b","o","l","d">>
\* the string "italic"
KwItalic == <<"i","t","a","l","i","c">>
\* the string "replace"
KwReplace == <<"r","e","p","l","a","c","e">>
\* the string "with"
KwWith == <<"w","i","t","h">>

\* ------------------------------------------------------------------------
\* Literals
\* ------------------------------------------------------------------------
FmtBold == KwBold
FmtItalic == KwItalic
\* the string "underline"
FmtUnderline == <<"u","n","d","e","r","l","i","n","e">>

\* platform names (getPlatformName / SUPPORTED_PLATFORMS[...].name)
GoogleDocs == "Google Docs"
GoogleSlides == "Google Slides"
GoogleSheets == "Google Sheets"
Notion == "Notion"
MicrosoftWord == "Microsoft Word"
MicrosoftPowerPoint == "Microsoft PowerPoint"
MicrosoftOffice == "Microsoft Office"
Unknown == "Unknown"

\* ------------------------------------------------------------------------
\* Adapter calls
\* ------------------------------------------------------------------------
\* a call of a page-object method: args are the string arguments (the list
\* items for addBulletList), level the heading level (0 where there is none)
Call(op, args, level) == [op |-> op, args |-> args, level |-> level]
NoCall == Call("none", <<>>, 0)

\* Array.prototype.filter of line 348
ListItems(instruction) ==
  SelectSeq(SplitLines(instruction),
            LAMBDA item : Trim(item) # <<>> /\ ~Includes(ToLowerCase(item), KwList))

\* a default branch that passes the trimmed instruction
DefaultAddText_Trimmed(instruction, platformName) ==
  [call |-> IF platformName = GoogleDocs THEN Call("typeText", <<Trim(instruction)>>, 0)
            ELSE IF platformName = Notion THEN Call("addTextBlock", <<Trim(instruction)>>, 0)
            ELSE IF platformName = GoogleSlides THEN Call("addTextBox", <<Trim(instruction)>>, 0)
            ELSE NoCall,
   action |-> "Text added",
   type |-> "default"]

\* lines 376-385, the default branch of executeAutoInstruction: just add the text
DefaultAddText(instruction, platformName) ==
  [call |-> IF platformName = GoogleDocs THEN Call("typeText", <<instruction>>, 0)
            ELSE IF platformName = Notion THEN Call("addTextBlock", <<instruction>>, 0)
            ELSE IF platformName = GoogleSlides THEN Call("addTextBox", <<instruction>>, 0)
            ELSE NoCall,
   action |-> "Text added",
   type |-> "default"]

\* lines 338-343, the title/heading branch
TitleBranch(instruction, platformName) ==
  LET text == Trim(ReplaceAllCI(instruction, <<KwTitle, KwHeading>>))
  IN  [call |-> IF platformName = Notion THEN Call("addHeading", <<text>>, 1)
                ELSE IF platformName = GoogleSlides THEN Call("setSlideTitle", <<text>>, 0)
                ELSE NoCall,
       action |-> "Title/Heading set",
       type |-> "smart_detection"]

\* lines 347-355, the list/bullet branch
ListBranch(instruction, platformName) ==
  LET items == ListItems(instruction)
  IN  [call |-> IF platformName = Notion
                THEN IF Len(items) > 0
                     THEN Call("addBulletList", items, 0)
                     ELSE Call("addBulletList",
                               <<Trim(ReplaceAllCI(instruction, <<KwList, KwBullet>>))>>, 0)
                ELSE NoCall,
       action |-> "List created",
       type |-> "smart_detection"]

\* lines 359-361, the bold/italic branch
FormatBranch(lowerInstruction) ==
  LET formatting == IF Includes(lowerInstruction, KwBold) THEN FmtBold ELSE FmtItalic
  IN  [call |-> Call("selectAllAndFormat", <<formatting>>, 0),
       action |-> "formatting applied",
       type |-> "smart_detection"]

\* a replace branch that passes the segments before and after "replace"
ReplaceBranch_ShiftedSegments(instruction) ==
  LET parts == SplitCI(instruction, <<KwReplace, KwWith>>)
  IN  [call |-> Call("findAndReplace", <<Trim(parts[1]), Trim(parts[2])>>, 0),
       action |-> "Text replaced",
       type |-> "smart_detection"]

\* lines 366-371, the replace branch on Google Docs with at least three parts
ReplaceBranch(instruction) ==
  LET parts == SplitCI(instruction, <<KwReplace, KwWith>>)
  IN  [call |-> Call("findAndReplace", <<Trim(parts[2]), Trim(parts[3])>>, 0),
       action |-> "Text replaced",
       type |-> "smart_detection"]

\* a dispatcher that tests list/bullet before title/heading
ExecuteAutoInstruction_ListFirst(instruction, platformName) ==
  LET lowerInstruction == ToLowerCase(instruction)
      has(kw) == Includes(lowerInstruction, kw)
  IN  IF has(KwList) \/ has(KwBullet) THEN ListBranch(instruction, platformName)
      ELSE IF has(KwTitle) \/ has(KwHeading) THEN TitleBranch(instruction, platformName)
      ELSE IF has(KwBold) \/ has(KwItalic) THEN FormatBranch(lowerInstruction)
      ELSE IF has(KwReplace) /\ has(KwWith) /\ platformName = GoogleDocs
              /\ Len(SplitCI(instruction, <<KwReplace, KwWith>>)) >= 3
        THEN ReplaceBranch(instruction)
      ELSE DefaultAddText(instruction, platformName)

\* executeAutoInstruction(pageObject, instruction, options, platformName):
\* the page-object method it calls (NoCall when it calls none) and the
\* result object it returns when that call does not throw
ExecuteAutoInstruction(instruction, platformName) ==
  LET lowerInstruction == ToLowerCase(instruction)
      has(kw) == Includes(lowerInstruction, kw)
  IN  IF has(KwTitle) \/ has(KwHeading) THEN TitleBranch(instruction, platformName)
      ELSE IF has(KwList) \/ has(KwBullet) THEN ListBranch(instruction, platformName)
      ELSE IF has(KwBold) \/ has(KwItalic) THEN FormatBranch(lowerInstruction)
      ELSE IF has(KwReplace) /\ has(KwWith) /\ platformName = GoogleDocs
              /\ Len(SplitCI(instruction, <<KwReplace, KwWith>>)) >= 3
        THEN ReplaceBranch(instruction)
      ELSE DefaultAddText(instruction, platformName)

\* ------------------------------------------------------------------------
\* Platform detection
\* ------------------------------------------------------------------------
NoFileType == [type |-> "null", platform |-> "null"]
FileType(type, plat) == [type |-> type, platform |-> plat]

\* the string "docs.google.com/document"
NeedleDocsDocument == <<"d","o","c","s",".","g","o","o","g","l","e",".","c","o","m","/","d","o","c","u","m","e","n","t">>
\* the string "docs.google.com/presentation"
NeedleDocsPresentation == <<"d","o","c","s",".","g","o","o","g","l","e",".","c","o","m","/","p","r","e","s","e","n","t","a","t","i","o","n">>
\* the string "slides.google.com"
NeedleSlides == <<"s","l","i","d","e","s",".","g","o","o","g","l","e",".","c","o","m">>
\* the string "docs.google.com/spreadsheets"
NeedleDocsSpreadsheets == <<"d","o","c","s",".","g","o","o","g","l","e",".","c","o","m","/","s","p","r","e","a","d","s","h","e","e","t","s">>
\* the string "notion.so"
NeedleNotion == <<"n","o","t","i","o","n",".","s","o">>
\* the string "www.notion.so"
NeedleWwwNotion == <<"w","w","w",".","n","o","t","i","o","n",".","s","o">>
\* the string "office.com"
NeedleOffice == <<"o","f","f","i","c","e",".","c","o","m">>
\* the string "sharepoint.com"
NeedleSharepoint == <<"s","h","a","r","e","p","o","i","n","t",".","c","o","m">>
\* the string ".docx"
ExtDocx == <<".","d","o","c","x">>
\* the string ".doc"
ExtDoc == <<".","d","o","c">>
\* the string ".pptx"
ExtPptx == <<".","p","p","t","x">>
\* the string ".ppt"
ExtPpt == <<".","p","p","t">>

\* cloud-auth.js detectFileTypeFromUrl(url); authFile is <platform>-auth.json
DetectFileTypeFromUrl(url) ==
  LET urlLower == ToLowerCase(url)
  IN  IF Includes(urlLower, NeedleDocsDocument) THEN FileType("google-docs", "google")
      ELSE IF Includes(urlLower, NeedleDocsPresentation) \/ Includes(urlLower, NeedleSlides)
        THEN FileType("google-slides", "google")
      ELSE IF Includes(urlLower, NeedleDocsSpreadsheets) THEN FileType("google-sheets", "google")
      ELSE IF Includes(urlLower, NeedleNotion) \/ Includes(urlLower, NeedleWwwNotion)
        THEN FileType("notion", "notion")
      ELSE IF Includes(urlLower, NeedleOffice) \/ Includes(urlLower, NeedleSharepoint)
        THEN FileType("microsoft-office", "microsoft")
      ELSE NoFileType

\* cloud-auth.js detectFileTypeFromContent(content, filename)
DetectFileTypeFromContent(content, filename) ==
  LET contentLower == ToLowerCase(content)
      filenameLower == ToLowerCase(filename)
  IN  IF Includes(contentLower, NeedleDocsDocument) THEN FileType("google-docs", "google")
      ELSE IF Includes(contentLower, NeedleDocsPresentation) \/ Includes(contentLower, NeedleSlides)
        THEN FileType("google-slides", "google")
      ELSE IF Includes(contentLower, NeedleNotion) THEN FileType("notion", "notion")
      ELSE IF EndsWith(filenameLower, ExtDocx) \/ EndsWith(filenameLower, ExtDoc)
        THEN FileType("microsoft-word", "microsoft")
      ELSE IF EndsWith(filenameLower, ExtPptx) \/ EndsWith(filenameLower, ExtPpt)
        THEN FileType("microsoft-powerpoint", "microsoft")
      ELSE NoFileType

\* index.js getPlatformName(fileType)
GetPlatformName(fileType) ==
  CASE fileType = "google-docs" -> GoogleDocs
    [] fileType = "google-slides" -> GoogleSlides
    [] fileType = "google-sheets" -> GoogleSheets
    [] fileType = "notion" -> Notion
    [] fileType = "microsoft-word" -> MicrosoftWord
    [] fileType = "microsoft-powerpoint" -> MicrosoftPowerPoint
    [] fileType = "microsoft-office" -> MicrosoftOffice
    [] OTHER -> Unknown

\* index.js getPageClass(fileType)
GetPageClass(fileType) ==
  CASE fileType = "google-docs" -> "GoogleDocsPage"
    [] fileType = "google-slides" -> "GoogleSlidesPage"
    [] fileType = "google-sheets" -> "GoogleDocsPage"
    [] fileType = "notion" -> "NotionPage"
    [] fileType = "microsoft-word" -> "GoogleDocsPage"
    [] fileType = "microsoft-powerpoint" -> "GoogleSlidesPage"
    [] fileType = "microsoft-office" -> "GoogleDocsPage"
    [] OTHER -> "GoogleDocsPage"

\* the registry SUPPORTED_PLATFORMS, in the order of Object.entries
\* the string "docs.google.com"
HostDocs == <<"d","o","c","s",".","g","o","o","g","l","e",".","c","o","m">>
\* the string "slides.google.com"
HostSlides == <<"s","l","i","d","e","s",".","g","o","o","g","l","e",".","c","o","m">>
\* the string "notion.so"
HostNotion == <<"n","o","t","i","o","n",".","s","o">>
\* the string "www.notion.so"
HostWwwNotion == <<"w","w","w",".","n","o","t","i","o","n",".","s","o">>
\* the string "www."
WwwDot == <<"w","w","w",".">>

SUPPORTED_PLATFORMS ==
  << [domain |-> HostDocs, name |-> GoogleDocs, authKey |-> "google", pageClass |-> "GoogleDocsPage"],
     [domain |-> HostSlides, name |-> GoogleSlides, authKey |-> "google", pageClass |-> "GoogleSlidesPage"],
     [domain |-> HostNotion, name |-> Notion, authKey |-> "notion", pageClass |-> "NotionPage"],
     [domain |-> HostWwwNotion, name |-> Notion, authKey |-> "notion", pageClass |-> "NotionPage"] >>

\* index of the first occurrence of p in s (0: none)
IndexOf(s, p) ==
  LET at == {i \in 1..(Len(s) - Len(p) + 1) : StartsAt(s, p, i)}
  IN  IF at = {} THEN 0 ELSE SetMin(at)

\* s.replace(p, '') with a string pattern: the first occurrence only
ReplaceFirst(s, p) ==
  LET i == IndexOf(s, p)
  IN  IF i = 0 THEN s ELSE SubSeq(s, 1, i - 1) \o SubSeq(s, i + Len(p), Len(s))

\* the string "://"
SchemeSep == <<":","/","/">>
AuthorityEnd == {"/", "?", "#"}
SchemeChars == {LowerChars[i] : i \in 1..26} \cup {UpperChars[i] : i \in 1..26}

\* new URL(url).hostname for an absolute URL scheme://authority...; valid is
\* FALSE where the constructor throws (no scheme, empty host)
ParseUrl(url) ==
  LET sep == IndexOf(url, SchemeSep)
  IN  IF sep <= 1 \/ \E k \in 1..(sep - 1) : url[k] \notin SchemeChars
      THEN [valid |-> FALSE, hostname |-> <<>>]
      ELSE LET rest == SubSeq(url, sep + 3, Len(url))
               ends == {i \in 1..Len(rest) : rest[i] \in AuthorityEnd}
               authority == IF ends = {} THEN rest ELSE SubSeq(rest, 1, SetMin(ends) - 1)
               ats == {i \in 1..Len(authority) : authority[i] = "@"}
               hostport == IF ats = {} THEN authority
                           ELSE SubSeq(authority, SetMax(ats) + 1, Len(authority))
               colons == {i \in 1..Len(hostport) : hostport[i] = ":"}
               host == IF colons = {} THEN hostport
                       ELSE SubSeq(hostport, 1, SetMin(colons) - 1)
           IN  IF host = <<>> THEN [valid |-> FALSE, hostname |-> <<>>]
               ELSE [valid |-> TRUE, hostname |-> ToLowerCase(host)]

\* detectPlatform(url) of the servers that use the host registry
DetectPlatform(url) ==
  LET u == ParseUrl(url)
      hostname == ToLowerCase(u.hostname)
      exact == {k \in 1..Len(SUPPORTED_PLATFORMS) : SUPPORTED_PLATFORMS[k].domain = hostname}
      partial == {k \in 1..Len(SUPPORTED_PLATFORMS) :
                    Includes(hostname, ReplaceFirst(SUPPORTED_PLATFORMS[k].domain, WwwDot))}
      entry(k) == [name |-> SUPPORTED_PLATFORMS[k].name,
                   authKey |-> SUPPORTED_PLATFORMS[k].authKey,
                   pageClass |-> SUPPORTED_PLATFORMS[k].pageClass]
  IN  IF ~u.valid THEN [name |-> "null", authKey |-> "null", pageClass |-> "null"]
      ELSE IF exact # {} THEN entry(SetMin(exact))
      ELSE IF partial # {} THEN entry(SetMin(partial))
      ELSE [name |-> "null", authKey |-> "null", pageClass |-> "null"]

\* methods of class GoogleDocsPage that the handlers refer to
GoogleDocsPageMethods ==
  {"waitForDocumentLoad", "typeText", "replaceAllText", "selectAllAndFormat",
   "findAndReplace", "changeDocumentTitle", "verifyTextExists", "isLoggedIn"}

\* methods of class NotionPage that the handlers refer to
NotionPageMethods ==
  {"waitForPageLoad", "setPageTitle", "addTextBlock", "addHeading", "addBulletList",
   "formatSelectedText", "selectTextAndFormat", "isLoggedIn", "verifyContentExists"}

\* methods of class GoogleSlidesPage that the handlers refer to
GoogleSlidesPageMethods ==
  {"waitForPresentationLoad", "setSlideTitle", "addTextBox", "formatSelectedText",
   "isLoggedIn", "verifyContentExists"}

\* pageObject = new platform.PageClass(page): the methods the object has
Methods(pageClass) ==
  CASE pageClass = "GoogleDocsPage" -> GoogleDocsPageMethods
    [] pageClass = "NotionPage" -> NotionPageMethods
    [] pageClass = "GoogleSlidesPage" -> GoogleSlidesPageMethods
    [] OTHER -> {}

\* ------------------------------------------------------------------------
\* State
\* ------------------------------------------------------------------------
VARIABLES
  server,        \* the server file that handles the request
  req,           \* req.body
  pc,            \* position of the handler
  authFiles,     \* platforms whose auth-states/<platform>-auth.json exists
  envCreds,      \* platforms whose <PLATFORM>_EMAIL and _PASSWORD are set
  platform,      \* the handler's platform object
  browserVar,    \* the handler's variable browser holds a browser
  browserState,  \* the browser process launched for the request
  closeCalls,    \* invocations of browser.close() on that browser
  authPath,      \* the authentication path the handler took
  contextKind,   \* how the browser context of the request was created
  setupLeak,     \* setupCloudAuthentication left its browser running
  calls,         \* page-object methods invoked, in order
  result,        \* the handler's result object
  verified,      \* outcome of the verification step
  error,         \* message of the exception being handled
  unhandled,     \* an exception left the handler
  responses,     \* HTTP responses sent, in order
  steps,         \* the steps the handler has started, in order
  access,        \* auth-state files the request has read, written, and
                 \* written although they existed
  peer,          \* a second /edit-doc request in flight on the same server
  store,         \* rows <<user_id, platform>> of the credential store
  query          \* the pair getCredentials was called with

vars == <<server, req, pc, authFiles, envCreds, platform, browserVar,
          browserState, closeCalls, authPath, contextKind, setupLeak, calls,
          result, verified, error, unhandled, responses, steps, access,
          peer, store, query>>

NoPlatform == [name |-> "null", authKey |-> "null", pageClass |-> "null"]
NoResult == [action |-> "none", type |-> "none"]
NoError == <<>>

AuthPlatforms == {"google", "notion", "microsoft"}

NoAccess == [reads |-> {}, writes |-> {}, overwritten |-> {}]
NoPeer == [pc |-> "off", authKey |-> "null", reads |-> {}, writes |-> {}]
NoQuery == <<>>

\* the handler starts step s
Step(s) == steps' = Append(steps, s)

\* the variables of one request, before the handler has run
InitLocals ==
  /\ browserVar = FALSE
  /\ browserState = "none"
  /\ closeCalls = 0
  /\ authPath = "none"
  /\ contextKind = "none"
  /\ setupLeak = FALSE
  /\ calls = <<>>
  /\ result = NoResult
  /\ verified = "none"
  /\ error = NoError
  /\ unhandled = FALSE
  /\ responses = <<>>
  /\ steps = <<>>
  /\ access = NoAccess
  /\ query = NoQuery


\* ------------------------------------------------------------------------
\* Inputs of the dispatcher specification
\* ------------------------------------------------------------------------
Fragments ==
  { <<"T","i","t","l","e">>, <<"S","u","b","h","e","a","d","i","n","g">>, <<"l","i","s","t">>, <<"B","u","l","l","e","t">>, <<"B","O","L","D">>, <<"i","t","a","l","i","c">>,
    <<"R","e","p","l","a","c","e">>, <<"w","i","t","h">>, <<"\n">>, <<" ">>, <<"I","t","e","m"," ","1">>, <<"'","a","'">> }

RECURSIVE FragSeqs(_)
FragSeqs(n) ==
  IF n = 0 THEN {<<>>}
  ELSE LET prev == FragSeqs(n - 1)
       IN  prev \cup {p \o f : p \in prev, f \in Fragments}

\* README.md and test-automation.js examples
\* the string "Add a title and a list: A, B"
InstrTitleAndList == <<"A","d","d"," ","a"," ","t","i","t","l","e"," ","a","n","d"," ","a"," ","l","i","s","t",":"," ","A",","," ","B">>
\* the string "Item 1\nItem 2\nItem 3"
InstrThreeItems == <<"I","t","e","m"," ","1","\n","I","t","e","m"," ","2","\n","I","t","e","m"," ","3">>
\* the string "Replace 'old version' with 'new version'"
InstrReplaceQuoted == <<"R","e","p","l","a","c","e"," ","'","o","l","d"," ","v","e","r","s","i","o","n","'"," ","w","i","t","h"," ","'","n","e","w"," ","v","e","r","s","i","o","n","'">>
\* the string "Create a list with these items:\n A \nB"
InstrAutoList == <<"C","r","e","a","t","e"," ","a"," ","l","i","s","t"," ","w","i","t","h"," ","t","h","e","s","e"," ","i","t","e","m","s",":","\n"," ","A"," ","\n","B">>

TestInstructions == {InstrTitleAndList, InstrThreeItems, InstrReplaceQuoted, InstrAutoList}

AutoInstructions == (FragSeqs(MaxFrags) \ {<<>>}) \cup TestInstructions

AutoPlatformNames == {GoogleDocs, GoogleSlides, GoogleSheets, Notion, MicrosoftOffice}

Request(docUrl, instruction, action, formatting, fileContent, fileName, credentials, authState) ==
  [docUrl |-> docUrl, instruction |-> instruction, action |-> action,
   formatting |-> formatting, fileContent |-> fileContent, fileName |-> fileName,
   credentials |-> credentials, authState |-> authState]

\* the string "auto"
ActAuto == <<"a","u","t","o">>

\* ------------------------------------------------------------------------
\* Messages and responses
\* ------------------------------------------------------------------------
NameChars(name) ==
  CASE name = GoogleDocs -> <<"G","o","o","g","l","e"," ","D","o","c","s">>
    [] name = GoogleSlides -> <<"G","o","o","g","l","e"," ","S","l","i","d","e","s">>
    [] name = GoogleSheets -> <<"G","o","o","g","l","e"," ","S","h","e","e","t","s">>
    [] name = Notion -> <<"N","o","t","i","o","n">>
    [] name = MicrosoftWord -> <<"M","i","c","r","o","s","o","f","t"," ","W","o","r","d">>
    [] name = MicrosoftPowerPoint -> <<"M","i","c","r","o","s","o","f","t"," ","P","o","w","e","r","P","o","i","n","t">>
    [] name = MicrosoftOffice -> <<"M","i","c","r","o","s","o","f","t"," ","O","f","f","i","c","e">>
    [] OTHER -> <<"U","n","k","n","o","w","n">>

MsgAuthNotConfigured(name) ==
  <<"A","u","t","h","e","n","t","i","c","a","t","i","o","n"," ","n","o","t"," ","c","o","n","f","i","g","u","r","e","d"," ","f","o","r"," ">> \o NameChars(name) \o
  <<"."," ","P","l","e","a","s","e"," ","s","e","t"," ","e","n","v","i","r","o","n","m","e","n","t"," ","v","a","r","i","a","b","l","e","s",":"," ","G","O","O","G","L","E","_","E","M","A","I","L",","," ","G","O","O","G","L","E","_","P","A","S","S","W","O","R","D",","," ","N","O","T","I","O","N","_","E","M","A","I","L",","," ","N","O","T","I","O","N","_","P","A","S","S","W","O","R","D",","," ","e","t","c",".">>
MsgUnsupportedAction(action) == <<"U","n","s","u","p","p","o","r","t","e","d"," ","a","c","t","i","o","n",":"," ">> \o action
MsgUnsupportedFormatting(formatting) == <<"U","n","s","u","p","p","o","r","t","e","d"," ","f","o","r","m","a","t","t","i","n","g",":"," ">> \o formatting
\* the string "pageObject method is not a function"
MsgNotAFunction == <<"p","a","g","e","O","b","j","e","c","t"," ","m","e","t","h","o","d"," ","i","s"," ","n","o","t"," ","a"," ","f","u","n","c","t","i","o","n">>
\* the string "page.goto: url: expected string, got undefined"
MsgUrlExpectedString == <<"p","a","g","e",".","g","o","t","o",":"," ","u","r","l",":"," ","e","x","p","e","c","t","e","d"," ","s","t","r","i","n","g",","," ","g","o","t"," ","u","n","d","e","f","i","n","e","d">>
\* the string "Timeout 30000ms exceeded."
MsgTimeout == <<"T","i","m","e","o","u","t"," ","3","0","0","0","0","m","s"," ","e","x","c","e","e","d","e","d",".">>
\* the string "Target page, context or browser has been closed"
MsgTargetClosed == <<"T","a","r","g","e","t"," ","p","a","g","e",","," ","c","o","n","t","e","x","t"," ","o","r"," ","b","r","o","w","s","e","r"," ","h","a","s"," ","b","e","e","n"," ","c","l","o","s","e","d">>

\* messages of the exceptions the browser library raises
ExternalErrors == {MsgTimeout, MsgTargetClosed}

\* a JSON number in the place of a string of req.body
NumberValue == <<"number 123">>

\* typeof v === 'string'
IsString(v) == v # NumberValue

\* the string "url.toLowerCase is not a function"
MsgToLowerCaseNotAFunction == <<"u","r","l",".","t","o","L","o","w","e","r","C","a","s","e"," ","i","s"," ","n","o","t"," ","a"," ","f","u","n","c","t","i","o","n">>

\* the string "not found"
SubNotFound == <<"n","o","t"," ","f","o","u","n","d">>
\* the string "timeout"
SubTimeout == <<"t","i","m","e","o","u","t">>
\* the string "Authentication"
SubAuthentication == <<"A","u","t","h","e","n","t","i","c","a","t","i","o","n">>

\* index.js catch block: errorResponse.suggestion
Suggestion(message) ==
  IF Includes(message, SubNotFound) THEN "check-url"
  ELSE IF Includes(message, SubTimeout) THEN "timeout"
  ELSE IF Includes(message, SubAuthentication) THEN "auth-setup"
  ELSE "none"

\* an HTTP response: the status and the fields of the JSON body the claims
\* are about (verifiedField is "absent" where the body has no such field)
Response(status, success, loginRequired, platformField, verifiedField, suggestion, authMethod, message) ==
  [status |-> status, success |-> success, loginRequired |-> loginRequired,
   platform |-> platformField, verified |-> verifiedField, suggestion |-> suggestion,
   authMethod |-> authMethod, error |-> message]

BadRequest == Response(400, FALSE, FALSE, "absent", "absent", "none", "absent", <<>>)

\* ------------------------------------------------------------------------
\* Inputs of the index.js handler
\* ------------------------------------------------------------------------
\* the string "https://docs.google.com/document/d/1/edit"
UrlDocs == <<"h","t","t","p","s",":","/","/","d","o","c","s",".","g","o","o","g","l","e",".","c","o","m","/","d","o","c","u","m","e","n","t","/","d","/","1","/","e","d","i","t">>
\* the string "https://docs.google.com/presentation/d/1/edit"
UrlDocsPresentation == <<"h","t","t","p","s",":","/","/","d","o","c","s",".","g","o","o","g","l","e",".","c","o","m","/","p","r","e","s","e","n","t","a","t","i","o","n","/","d","/","1","/","e","d","i","t">>
\* the string "https://www.notion.so/page-1"
UrlNotion == <<"h","t","t","p","s",":","/","/","w","w","w",".","n","o","t","i","o","n",".","s","o","/","p","a","g","e","-","1">>
\* the string "https://docs.google.com/spreadsheets/d/1"
UrlSheets == <<"h","t","t","p","s",":","/","/","d","o","c","s",".","g","o","o","g","l","e",".","c","o","m","/","s","p","r","e","a","d","s","h","e","e","t","s","/","d","/","1">>
\* the string "https://contoso.sharepoint.com/doc"
UrlSharepoint == <<"h","t","t","p","s",":","/","/","c","o","n","t","o","s","o",".","s","h","a","r","e","p","o","i","n","t",".","c","o","m","/","d","o","c">>
\* the string "https://invalid-platform.com/document"
UrlInvalidPlatform == <<"h","t","t","p","s",":","/","/","i","n","v","a","l","i","d","-","p","l","a","t","f","o","r","m",".","c","o","m","/","d","o","c","u","m","e","n","t">>
\* the string "invalid-url"
UrlNotAUrl == <<"i","n","v","a","l","i","d","-","u","r","l">>

IdxUrls == {UrlDocs, UrlDocsPresentation, UrlNotion, UrlSheets, UrlSharepoint,
            UrlInvalidPlatform, UrlNotAUrl}

\* the string "see notion.so/page-1"
ContentNotionLink == <<"s","e","e"," ","n","o","t","i","o","n",".","s","o","/","p","a","g","e","-","1">>
\* the string "hello"
ContentPlain == <<"h","e","l","l","o">>
\* the string "report.docx"
NameDocx == <<"r","e","p","o","r","t",".","d","o","c","x">>

\* <<fileContent, fileName>> of the requests that carry no docUrl
IdxFiles == {<< <<>>, <<>> >>, <<ContentNotionLink, <<>> >>, <<ContentPlain, NameDocx>>,
             <<ContentPlain, <<>> >>}

\* the string "Hello"
InstrHello == <<"H","e","l","l","o">>
\* the string "Add a title"
InstrTitle == <<"A","d","d"," ","a"," ","t","i","t","l","e">>
\* the string "Make it bold"
InstrBold == <<"M","a","k","e"," ","i","t"," ","b","o","l","d">>
\* the string "replace a with b"
InstrReplace == <<"r","e","p","l","a","c","e"," ","a"," ","w","i","t","h"," ","b">>
\* the string "list\nA\nB"
InstrList == <<"l","i","s","t","\n","A","\n","B">>

IdxInstructions == {<<>>, InstrHello, InstrTitle, InstrBold, InstrReplace, InstrList}

\* the string "typeText"
ActTypeText == <<"t","y","p","e","T","e","x","t">>
\* the string "replaceAll"
ActReplaceAll == <<"r","e","p","l","a","c","e","A","l","l">>
\* the string "addHeading"
ActAddHeading == <<"a","d","d","H","e","a","d","i","n","g">>
\* the string "addList"
ActAddList == <<"a","d","d","L","i","s","t">>
\* the string "format"
ActFormat == <<"f","o","r","m","a","t">>
\* the string "delete"
ActDelete == <<"d","e","l","e","t","e">>

IdxActions == {ActAuto, ActTypeText, ActReplaceAll, ActAddHeading, ActAddList, ActFormat, ActDelete}

\* the string "strike"
FmtStrike == <<"s","t","r","i","k","e">>
IdxFormattings == {<<>>, FmtBold, FmtStrike}

\* the request bodies: fileContent and fileName are read only when docUrl is
\* falsy, options.formatting only by action format
IdxRequests ==
  {Request(u, i, a, f, c[1], c[2], "absent", FALSE) :
     u \in IdxUrls \cup {<<>>}, i \in IdxInstructions, a \in IdxActions,
     f \in IdxFormattings, c \in IdxFiles}

IsIdxRequest(r) ==
  /\ r.docUrl # <<>> => (r.fileContent = <<>> /\ r.fileName = <<>>)
  /\ ToLowerCase(r.action) # ActFormat => r.formatting = <<>>

\* ------------------------------------------------------------------------
\* The dispatcher on its own: executeAutoInstruction applied to an
\* instruction and a platform name, every page-object call succeeding
\* ------------------------------------------------------------------------
InitAuto ==
  /\ server = "dispatcher"
  /\ \E i \in AutoInstructions :
       req = Request(<<>>, i, ActAuto, <<>>, <<>>, <<>>, "absent", FALSE)
  /\ \E n \in AutoPlatformNames :
       platform = [name |-> n, authKey |-> "null", pageClass |-> "null"]
  /\ pc = "dispatch"
  /\ authFiles = {}
  /\ envCreds = {}
  /\ InitLocals
  /\ peer = NoPeer
  /\ store = {}

RunAuto ==
  /\ server = "dispatcher"
  /\ pc = "dispatch"
  /\ LET r == ExecuteAutoInstruction(req.instruction, platform.name)
     IN  /\ calls' = IF r.call = NoCall THEN calls ELSE Append(calls, r.call)
         /\ result' = [action |-> r.action, type |-> r.type]
  /\ pc' = "returned"
  /\ UNCHANGED <<server, req, authFiles, envCreds, platform, browserVar,
                 browserState, closeCalls, authPath, contextKind, setupLeak,
                 verified, error, unhandled, responses>>
  /\ Step("dispatch")
  /\ UNCHANGED <<access, peer, store, query>>

NextAuto == RunAuto

SpecAuto == InitAuto /\ [][NextAuto]_vars

\* ------------------------------------------------------------------------
\* index.js: app.post("/edit-doc")
\* ------------------------------------------------------------------------
\* the string "typetext"
KeyTypeText == <<"t","y","p","e","t","e","x","t">>
\* the string "replaceall"
KeyReplaceAll == <<"r","e","p","l","a","c","e","a","l","l">>
\* the string "addheading"
KeyAddHeading == <<"a","d","d","h","e","a","d","i","n","g">>
\* the string "addlist"
KeyAddList == <<"a","d","d","l","i","s","t">>
\* the string "format"
KeyFormat == <<"f","o","r","m","a","t">>

MsgTypeFailed(text) == <<"F","a","i","l","e","d"," ","t","o"," ","t","y","p","e"," ","t","e","x","t",":"," ","\"">> \o text \o <<"\"">>

\* the switch of lines 233-276 for an action other than auto: the method
\* called (NoCall when the case calls none) and the result object; known is
\* FALSE in the default case
ExplicitCall(action, instruction, formatting, platformName) ==
  LET a == ToLowerCase(action)
  IN  CASE a = KeyTypeText ->
             [known |-> TRUE,
              call |-> IF platformName = GoogleDocs THEN Call("typeText", <<instruction>>, 0)
                       ELSE IF platformName = Notion THEN Call("addTextBlock", <<instruction>>, 0)
                       ELSE IF platformName = GoogleSlides THEN Call("addTextBox", <<instruction>>, 0)
                       ELSE NoCall,
              action |-> "Text typed successfully", type |-> "explicit"]
        [] a = KeyReplaceAll ->
             [known |-> TRUE,
              call |-> IF platformName = GoogleDocs THEN Call("replaceAllText", <<instruction>>, 0)
                       ELSE NoCall,
              action |-> "Text replaced successfully", type |-> "explicit"]
        [] a = KeyAddHeading ->
             [known |-> TRUE,
              call |-> IF platformName = Notion THEN Call("addHeading", <<instruction>>, 1)
                       ELSE IF platformName = GoogleSlides THEN Call("setSlideTitle", <<instruction>>, 0)
                       ELSE NoCall,
              action |-> "Heading added successfully", type |-> "explicit"]
        [] a = KeyAddList ->
             [known |-> TRUE,
              call |-> IF platformName = Notion
                       THEN Call("addBulletList",
                                 SelectSeq(SplitLines(instruction), LAMBDA item : Trim(item) # <<>>), 0)
                       ELSE NoCall,
              action |-> "List added successfully", type |-> "explicit"]
        [] a = KeyFormat ->
             [known |-> TRUE,
              call |-> IF formatting # <<>> THEN Call("selectAllAndFormat", <<formatting>>, 0)
                       ELSE NoCall,
              action |-> "Formatting applied successfully", type |-> "explicit"]
        [] OTHER ->
             [known |-> FALSE, call |-> NoCall, action |-> "none", type |-> "none"]

\* a switch that applies the keyword rules whatever the action is
Dispatch_KeywordsAlways(action, instruction, formatting, platformName) ==
  LET r == ExecuteAutoInstruction(instruction, platformName)
  IN  [known |-> TRUE, call |-> r.call, action |-> r.action, type |-> r.type]

\* the decision of the switch, case auto included
Dispatch(action, instruction, formatting, platformName) ==
  IF ToLowerCase(action) = ActAuto
  THEN LET r == ExecuteAutoInstruction(instruction, platformName)
       IN  [known |-> TRUE, call |-> r.call, action |-> r.action, type |-> r.type]
  ELSE ExplicitCall(action, instruction, formatting, platformName)

\* a page-object method that can return normally: selectAllAndFormat throws
\* for a formatting other than bold, italic and underline
CanSucceed(call) ==
  call.op = "selectAllAndFormat" =>
    ToLowerCase(call.args[1]) \in {FmtBold, FmtItalic, FmtUnderline}

\* the messages of the exceptions a page-object method can throw
CallErrors(call) ==
  ExternalErrors
    \cup (IF call.op = "typeText" THEN {MsgTypeFailed(call.args[1])} ELSE {})
    \cup (IF call.op = "selectAllAndFormat" /\ ~CanSucceed(call)
          THEN {MsgUnsupportedFormatting(call.args[1])} ELSE {})

Raise(message) ==
  /\ error' = message
  /\ pc' = "catch"

InitIndex ==
  /\ server = "index"
  /\ req \in {r \in IdxRequests : IsIdxRequest(r)}
  /\ pc = "start"
  /\ authFiles \in SUBSET AuthPlatforms
  /\ envCreds \in SUBSET AuthPlatforms
  /\ platform = NoPlatform
  /\ InitLocals
  /\ peer = NoPeer
  /\ store = {}

\* lines 134-165
IdxValidate ==
  /\ server = "index"
  /\ pc = "start"
  /\ IF (req.docUrl = <<>> /\ req.fileContent = <<>>) \/ req.instruction = <<>>
     THEN /\ responses' = Append(responses, BadRequest)
          /\ pc' = "done"
     ELSE /\ pc' = "detect"
          /\ UNCHANGED responses
  /\ UNCHANGED <<server, req, authFiles, envCreds, platform, browserVar,
                 browserState, closeCalls, authPath, contextKind, setupLeak,
                 calls, result, verified, error, unhandled>>
  /\ Step("validate")
  /\ UNCHANGED <<access, peer, store, query>>

\* lines 167-192; detectFileTypeFromUrl(docUrl) is called before the try
\* block, so the TypeError it raises for a docUrl that is not a string
\* leaves the handler
IdxDetect ==
  /\ server = "index"
  /\ pc = "detect"
  /\ IF req.docUrl # <<>> /\ ~IsString(req.docUrl)
     THEN /\ error' = MsgToLowerCaseNotAFunction
          /\ unhandled' = TRUE
          /\ pc' = "done"
          /\ UNCHANGED <<platform, responses>>
     ELSE LET detectedFileType ==
                IF req.docUrl # <<>> THEN DetectFileTypeFromUrl(req.docUrl)
                ELSE IF req.fileContent # <<>> \/ req.fileName # <<>>
                  THEN DetectFileTypeFromContent(req.fileContent, req.fileName)
                ELSE NoFileType
          IN  /\ IF detectedFileType = NoFileType
                 THEN /\ responses' = Append(responses, BadRequest)
                      /\ pc' = "done"
                      /\ UNCHANGED platform
                 ELSE /\ platform' = [name |-> GetPlatformName(detectedFileType.type),
                                      authKey |-> detectedFileType.platform,
                                      pageClass |-> GetPageClass(detectedFileType.type)]
                      /\ pc' = "auth"
                      /\ UNCHANGED responses
              /\ UNCHANGED <<error, unhandled>>
  /\ UNCHANGED <<server, req, authFiles, envCreds, browserVar, browserState,
                 closeCalls, authPath, contextKind, setupLeak, calls, result,
                 verified>>
  /\ Step("detect")
  /\ UNCHANGED <<access, peer, store, query>>

\* createAuthenticatedContext, lines 95 and 100-104 with the file present
IdxAuthCheck ==
  /\ server = "index"
  /\ pc = "auth"
  /\ pc' = IF platform.authKey \in authFiles THEN "launch" ELSE "setup"
  /\ authPath' = "stored"
  /\ access' = [access EXCEPT !.reads = @ \cup {platform.authKey}]
  /\ UNCHANGED <<server, req, authFiles, envCreds, platform, browserVar,
                 browserState, closeCalls, contextKind, setupLeak, calls,
                 result, verified, error, unhandled, responses>>
  /\ Step("credentials")
  /\ UNCHANGED <<peer, store, query>>

\* createAuthenticatedContext, lines 96-104: autoSetupAuthentication()
\* (cloud-auth.js 207-220, setupCloudAuthentication 29-90), then the check
\* that the auth file exists.  setupCloudAuthentication logs in every
\* platform that has credentials; a login that fails is caught and writes
\* no file; launch, newContext, newPage and close are outside that catch.
IdxAutoSetup ==
  /\ server \in {"index", "local"}
  /\ pc = "setup"
  /\ LET missingAuth == {p \in AuthPlatforms : p \notin authFiles /\ p \in envCreds}
     IN  IF missingAuth = {}
         THEN /\ UNCHANGED <<authFiles, setupLeak>>
              /\ access' = [access EXCEPT !.reads = AuthPlatforms]
              /\ Raise(MsgAuthNotConfigured(platform.name))
         ELSE \E written \in SUBSET envCreds :
                /\ authFiles' = authFiles \cup written
                /\ access' = [reads |-> AuthPlatforms, writes |-> access.writes \cup written,
                              overwritten |-> access.overwritten \cup (written \cap authFiles)]
                /\ \/ /\ setupLeak' = FALSE
                      /\ IF platform.authKey \in authFiles'
                         THEN pc' = "launch" /\ UNCHANGED error
                         ELSE Raise(MsgAuthNotConfigured(platform.name))
                   \/ /\ setupLeak' \in BOOLEAN
                      /\ \E m \in ExternalErrors : Raise(m)
  /\ UNCHANGED <<server, req, envCreds, platform, browserVar, browserState,
                 closeCalls, authPath, contextKind, calls, result, verified,
                 unhandled, responses>>
  /\ Step("setup")
  /\ UNCHANGED <<peer, store, query>>

\* createAuthenticatedContext, line 106: chromium.launch
IdxLaunch ==
  /\ server \in {"index", "local"}
  /\ pc = "launch"
  /\ \/ /\ browserState' = "open"
        /\ pc' = "newContext"
        /\ UNCHANGED error
     \/ /\ \E m \in ExternalErrors : Raise(m)
        /\ UNCHANGED browserState
  /\ UNCHANGED <<server, req, authFiles, envCreds, platform, browserVar,
                 closeCalls, authPath, contextKind, setupLeak, calls, result,
                 verified, unhandled, responses>>
  /\ Step("launch")
  /\ UNCHANGED <<access, peer, store, query>>

\* createAuthenticatedContext, lines 123-129, and the assignment of line 200:
\* the handler's browser is assigned only when newContext has returned
IdxNewContext ==
  /\ server \in {"index", "local"}
  /\ pc = "newContext"
  /\ access' = [access EXCEPT !.reads = @ \cup {platform.authKey}]
  /\ \/ /\ contextKind' = "stored"
        /\ browserVar' = TRUE
        /\ pc' = "newPage"
        /\ UNCHANGED error
     \/ /\ \E m \in ExternalErrors : Raise(m)
        /\ UNCHANGED <<contextKind, browserVar>>
  /\ UNCHANGED <<server, req, authFiles, envCreds, platform, browserState,
                 closeCalls, authPath, setupLeak, calls, result, verified,
                 unhandled, responses>>
  /\ Step("context")
  /\ UNCHANGED <<peer, store, query>>

\* a handler that dispatches on the fresh page without navigating to docUrl
IdxNewPage_SkipsNavigation ==
  /\ server \in {"index", "local"}
  /\ pc = "newPage"
  /\ \/ pc' = "dispatch" /\ UNCHANGED error
     \/ \E m \in ExternalErrors : Raise(m)
  /\ UNCHANGED <<server, req, authFiles, envCreds, platform, browserVar,
                 browserState, closeCalls, authPath, contextKind, setupLeak,
                 calls, result, verified, unhandled, responses>>
  /\ Step("page")
  /\ UNCHANGED <<access, peer, store, query>>

\* line 201: context.newPage
IdxNewPage ==
  /\ server \in {"index", "local"}
  /\ pc = "newPage"
  /\ \/ pc' = "goto" /\ UNCHANGED error
     \/ \E m \in ExternalErrors : Raise(m)
  /\ UNCHANGED <<server, req, authFiles, envCreds, platform, browserVar,
                 browserState, closeCalls, authPath, contextKind, setupLeak,
                 calls, result, verified, unhandled, responses>>
  /\ Step("page")
  /\ UNCHANGED <<access, peer, store, query>>

\* a navigation that is tried a second time after its first failure
IdxGoto_RetriesOnce ==
  /\ server \in {"index", "local"}
  /\ pc = "goto"
  /\ IF req.docUrl = <<>>
     THEN Raise(MsgUrlExpectedString)
     ELSE \/ pc' = "waitLoad" /\ UNCHANGED error
          \/ IF \A k \in 1..Len(steps) : steps[k] # "goto"
             THEN pc' = "goto" /\ UNCHANGED error
             ELSE \E m \in ExternalErrors : Raise(m)
  /\ UNCHANGED <<server, req, authFiles, envCreds, platform, browserVar,
                 browserState, closeCalls, authPath, contextKind, setupLeak,
                 calls, result, verified, unhandled, responses>>
  /\ Step("goto")
  /\ UNCHANGED <<access, peer, store, query>>

\* line 205: page.goto(docUrl); docUrl is undefined or empty when the
\* platform was detected from fileContent
IdxGoto ==
  /\ server \in {"index", "local"}
  /\ pc = "goto"
  /\ IF req.docUrl = <<>>
     THEN Raise(MsgUrlExpectedString)
     ELSE \/ pc' = "waitLoad" /\ UNCHANGED error
          \/ \E m \in ExternalErrors : Raise(m)
  /\ UNCHANGED <<server, req, authFiles, envCreds, platform, browserVar,
                 browserState, closeCalls, authPath, contextKind, setupLeak,
                 calls, result, verified, unhandled, responses>>
  /\ Step("goto")
  /\ UNCHANGED <<access, peer, store, query>>

\* lines 208-218: the load wait of the three platforms that have one
IdxWaitLoad ==
  /\ server \in {"index", "local"}
  /\ pc = "waitLoad"
  /\ \/ pc' = "isLoggedIn" /\ UNCHANGED error
     \/ /\ platform.name \in {GoogleDocs, GoogleSlides, Notion}
        /\ \E m \in ExternalErrors : Raise(m)
  /\ UNCHANGED <<server, req, authFiles, envCreds, platform, browserVar,
                 browserState, closeCalls, authPath, contextKind, setupLeak,
                 calls, result, verified, unhandled, responses>>
  /\ Step("load")
  /\ UNCHANGED <<access, peer, store, query>>

\* a login check that answers 401 and leaves the handler without its finally
IdxIsLoggedIn_ReturnsEarly ==
  /\ server \in {"index", "local"}
  /\ pc = "isLoggedIn"
  /\ \/ pc' = "dispatch" /\ UNCHANGED responses
     \/ /\ responses' = Append(responses,
             Response(401, FALSE, FALSE, platform.name, "absent", "none", "absent", <<>>))
        /\ pc' = "done"
  /\ UNCHANGED <<server, req, authFiles, envCreds, platform, browserVar,
                 browserState, closeCalls, authPath, contextKind, setupLeak,
                 calls, result, verified, error, unhandled>>
  /\ Step("loggedIn")
  /\ UNCHANGED <<access, peer, store, query>>

\* a login check that throws when the logged-in marker does not appear
IdxIsLoggedIn_Throws ==
  /\ server \in {"index", "local"}
  /\ pc = "isLoggedIn"
  /\ \/ pc' = "dispatch" /\ UNCHANGED error
     \/ Raise(MsgTimeout)
  /\ UNCHANGED <<server, req, authFiles, envCreds, platform, browserVar,
                 browserState, closeCalls, authPath, contextKind, setupLeak,
                 calls, result, verified, unhandled, responses>>
  /\ Step("loggedIn")
  /\ UNCHANGED <<access, peer, store, query>>

\* lines 220-227: pageObject.isLoggedIn() returns a boolean
IdxIsLoggedIn ==
  /\ server \in {"index", "local"}
  /\ pc = "isLoggedIn"
  /\ \/ pc' = "dispatch" /\ UNCHANGED responses
     \/ /\ responses' = Append(responses,
             Response(401, FALSE, FALSE, platform.name, "absent", "none", "absent", <<>>))
        /\ pc' = "finally"
  /\ UNCHANGED <<server, req, authFiles, envCreds, platform, browserVar,
                 browserState, closeCalls, authPath, contextKind, setupLeak,
                 calls, result, verified, error, unhandled>>
  /\ Step("loggedIn")
  /\ UNCHANGED <<access, peer, store, query>>

\* lines 229-276: the switch on action.toLowerCase()
IdxDispatch ==
  /\ server \in {"index", "local"}
  /\ pc = "dispatch"
  /\ LET d == Dispatch(req.action, req.instruction, req.formatting, platform.name)
     IN  IF ~d.known
         THEN /\ Raise(MsgUnsupportedAction(req.action))
              /\ UNCHANGED <<calls, result>>
         ELSE IF d.call = NoCall
         THEN /\ result' = [action |-> d.action, type |-> d.type]
              /\ pc' = "verify"
              /\ UNCHANGED <<calls, error>>
         ELSE IF d.call.op \notin Methods(platform.pageClass)
         THEN /\ Raise(MsgNotAFunction)
              /\ UNCHANGED <<calls, result>>
         ELSE /\ calls' = Append(calls, d.call)
              /\ \/ /\ CanSucceed(d.call)
                    /\ result' = [action |-> d.action, type |-> d.type]
                    /\ pc' = "verify"
                    /\ UNCHANGED error
                 \/ /\ \E m \in CallErrors(d.call) : Raise(m)
                    /\ UNCHANGED result
  /\ UNCHANGED <<server, req, authFiles, envCreds, platform, browserVar,
                 browserState, closeCalls, authPath, contextKind, setupLeak,
                 verified, unhandled, responses>>
  /\ Step("dispatch")
  /\ UNCHANGED <<access, peer, store, query>>

\* a verification step without its own try/catch
IdxVerify_Propagates ==
  /\ server \in {"index", "local"}
  /\ pc = "verify"
  /\ \/ /\ "verifyContentExists" \in Methods(platform.pageClass)
        /\ verified' = "ok"
        /\ pc' = "respond"
        /\ UNCHANGED error
     \/ /\ verified' = "failed"
        /\ \E m \in ExternalErrors : Raise(m)
  /\ UNCHANGED <<server, req, authFiles, envCreds, platform, browserVar,
                 browserState, closeCalls, authPath, contextKind, setupLeak,
                 calls, result, unhandled, responses>>
  /\ Step("verify")
  /\ UNCHANGED <<access, peer, store, query>>

\* lines 278-284: verifyContentExists inside its own try/catch; the class
\* GoogleDocsPage has no such method, and the TypeError is caught as well
IdxVerify ==
  /\ server \in {"index", "local"}
  /\ pc = "verify"
  /\ \/ /\ "verifyContentExists" \in Methods(platform.pageClass)
        /\ verified' = "ok"
     \/ verified' = "failed"
  /\ pc' = "respond"
  /\ UNCHANGED <<server, req, authFiles, envCreds, platform, browserVar,
                 browserState, closeCalls, authPath, contextKind, setupLeak,
                 calls, result, error, unhandled, responses>>
  /\ Step("verify")
  /\ UNCHANGED <<access, peer, store, query>>

\* lines 286-296: the success response
IdxRespond ==
  /\ server \in {"index", "local"}
  /\ pc = "respond"
  /\ responses' = Append(responses,
       Response(200, TRUE, FALSE, platform.name, "absent", "none", "absent", <<>>))
  /\ pc' = "finally"
  /\ UNCHANGED <<server, req, authFiles, envCreds, platform, browserVar,
                 browserState, closeCalls, authPath, contextKind, setupLeak,
                 calls, result, verified, error, unhandled>>
  /\ Step("respond")
  /\ UNCHANGED <<access, peer, store, query>>

\* lines 298-318: the catch block
IdxCatch ==
  /\ server \in {"index", "local"}
  /\ pc = "catch"
  /\ responses' = Append(responses,
       Response(500, FALSE, FALSE, platform.name, "absent", Suggestion(error), "absent", error))
  /\ pc' = "finally"
  /\ UNCHANGED <<server, req, authFiles, envCreds, platform, browserVar,
                 browserState, closeCalls, authPath, contextKind, setupLeak,
                 calls, result, verified, error, unhandled>>
  /\ Step("catch")
  /\ UNCHANGED <<access, peer, store, query>>

\* lines 319-329: the finally block; an exception of browser.close() is caught
IdxFinally ==
  /\ server \in {"index", "local"}
  /\ pc = "finally"
  /\ IF browserVar
     THEN /\ closeCalls' = closeCalls + 1
          /\ browserState' \in {"closed", "open"}
     ELSE UNCHANGED <<closeCalls, browserState>>
  /\ pc' = "done"
  /\ UNCHANGED <<server, req, authFiles, envCreds, platform, browserVar,
                 authPath, contextKind, setupLeak, calls, result, verified,
                 error, unhandled, responses>>
  /\ Step("teardown")
  /\ UNCHANGED <<access, peer, store, query>>

NextIndex ==
  \/ IdxValidate
  \/ IdxDetect
  \/ IdxAuthCheck
  \/ IdxAutoSetup
  \/ IdxLaunch
  \/ IdxNewContext
  \/ IdxNewPage
  \/ IdxGoto
  \/ IdxWaitLoad
  \/ IdxIsLoggedIn
  \/ IdxDispatch
  \/ IdxVerify
  \/ IdxRespond
  \/ IdxCatch
  \/ IdxFinally

Spec == InitIndex /\ [][NextIndex]_vars


\* ------------------------------------------------------------------------
\* The OAuth worker (src/unnamed/part_001): app.post("/edit-doc")
\* ------------------------------------------------------------------------
\* the string "https://slides.google.com/presentation/d/1/edit"
UrlSlides == <<"h","t","t","p","s",":","/","/","s","l","i","d","e","s",".","g","o","o","g","l","e",".","c","o","m","/","p","r","e","s","e","n","t","a","t","i","o","n","/","d","/","1","/","e","d","i","t">>

OaUrls == {<<>>, UrlDocs, UrlDocsPresentation, UrlSlides, UrlNotion, UrlInvalidPlatform, UrlNotAUrl}

\* the string "Type hello"
InstrTypeHello == <<"T","y","p","e"," ","h","e","l","l","o">>
\* the string "Title Notes"
InstrTitleNotes == <<"T","i","t","l","e"," ","N","o","t","e","s">>

OaInstructions == {<<>>, InstrHello, InstrTypeHello, InstrTitleNotes}

\* req.body.credentials: absent, an object without a (truthy) access_token,
\* or an object with an access token
OaCredentials == {"absent", "noToken", "token"}

\* the string "type"
KwType == <<"t","y","p","e">>
\* the string "write"
KwWrite == <<"w","r","i","t","e">>

\* the string "No valid authentication method provided"
MsgNoValidAuth == <<"N","o"," ","v","a","l","i","d"," ","a","u","t","h","e","n","t","i","c","a","t","i","o","n"," ","m","e","t","h","o","d"," ","p","r","o","v","i","d","e","d">>
\* the string "Authentication failed: OAuth token authentication failed: "
MsgAuthFailedPrefix == <<"A","u","t","h","e","n","t","i","c","a","t","i","o","n"," ","f","a","i","l","e","d",":"," ","O","A","u","t","h"," ","t","o","k","e","n"," ","a","u","t","h","e","n","t","i","c","a","t","i","o","n"," ","f","a","i","l","e","d",":"," ">>
\* the string "Token validation failed: invalid_token"
MsgTokenValidationFailed == <<"T","o","k","e","n"," ","v","a","l","i","d","a","t","i","o","n"," ","f","a","i","l","e","d",":"," ","i","n","v","a","l","i","d","_","t","o","k","e","n">>
\* the string "All authentication methods failed - token may be invalid or expired"
MsgAllMethodsFailed == <<"A","l","l"," ","a","u","t","h","e","n","t","i","c","a","t","i","o","n"," ","m","e","t","h","o","d","s"," ","f","a","i","l","e","d"," ","-"," ","t","o","k","e","n"," ","m","a","y"," ","b","e"," ","i","n","v","a","l","i","d"," ","o","r"," ","e","x","p","i","r","e","d">>
\* the string "An error occurred during automation: "
MsgAutomationPrefix == <<"A","n"," ","e","r","r","o","r"," ","o","c","c","u","r","r","e","d"," ","d","u","r","i","n","g"," ","a","u","t","o","m","a","t","i","o","n",":"," ">>

\* the messages authenticateWithToken wraps (lines 195-203)
TokenErrors == {MsgTokenValidationFailed, MsgAllMethodsFailed} \cup ExternalErrors

\* lines 271-281: the method the instruction is parsed to
OaInstructionCall(instruction) ==
  LET lower == ToLowerCase(instruction)
  IN  IF Includes(lower, KwType) \/ Includes(lower, KwWrite)
      THEN Call("typeText", <<Trim(ReplaceAllCI(instruction, <<KwType, KwWrite>>))>>, 0)
      ELSE IF Includes(lower, KwTitle)
      THEN Call("changeDocumentTitle", <<Trim(ReplaceAllCI(instruction, <<KwTitle>>))>>, 0)
      ELSE Call("typeText", <<instruction>>, 0)

\* authMethod of the responses, lines 288 and 296
OaAuthMethod(credentials) == IF credentials # "absent" THEN "oauth" ELSE "legacy"

InitOAuth ==
  /\ server = "oauth"
  /\ \E u \in OaUrls, i \in OaInstructions, c \in OaCredentials, a \in BOOLEAN :
       req = Request(u, i, ActAuto, <<>>, <<>>, <<>>, c, a)
  /\ pc = "start"
  /\ authFiles = {}
  /\ envCreds = {}
  /\ platform = NoPlatform
  /\ InitLocals
  /\ peer = NoPeer
  /\ store = {}

\* lines 208-227
OaValidate ==
  /\ server = "oauth"
  /\ pc = "start"
  /\ IF req.docUrl = <<>> \/ req.instruction = <<>>
     THEN /\ responses' = Append(responses, BadRequest)
          /\ pc' = "done"
          /\ steps' = steps \o <<"validate">>
          /\ UNCHANGED platform
     ELSE IF req.credentials = "absent" /\ ~req.authState
     THEN /\ responses' = Append(responses,
               Response(401, FALSE, TRUE, "absent", "absent", "none", "absent", <<>>))
          /\ pc' = "done"
          /\ steps' = steps \o <<"validate", "credentials">>
          /\ UNCHANGED platform
     ELSE IF DetectPlatform(req.docUrl) = NoPlatform
     THEN /\ responses' = Append(responses, BadRequest)
          /\ pc' = "done"
          /\ steps' = steps \o <<"validate", "credentials", "detect">>
          /\ UNCHANGED platform
     ELSE /\ platform' = DetectPlatform(req.docUrl)
          /\ pc' = "launch"
          /\ steps' = steps \o <<"validate", "credentials", "detect">>
          /\ UNCHANGED responses
  /\ UNCHANGED <<server, req, authFiles, envCreds, browserVar, browserState,
                 closeCalls, authPath, contextKind, setupLeak, calls, result,
                 verified, error, unhandled>>
  /\ UNCHANGED <<access, peer, store, query>>

\* lines 233-242: chromium.launch
OaLaunch ==
  /\ server = "oauth"
  /\ pc = "launch"
  /\ \/ /\ browserState' = "open"
        /\ browserVar' = TRUE
        /\ pc' = "authenticate"
        /\ UNCHANGED error
     \/ /\ \E m \in ExternalErrors : Raise(m)
        /\ UNCHANGED <<browserState, browserVar>>
  /\ UNCHANGED <<server, req, authFiles, envCreds, platform, closeCalls,
                 authPath, contextKind, setupLeak, calls, result, verified,
                 unhandled, responses>>
  /\ Step("launch")
  /\ UNCHANGED <<access, peer, store, query>>

\* a choice of the authentication method that tests authState first
OaAuthenticate_LegacyFirst ==
  /\ server = "oauth"
  /\ pc = "authenticate"
  /\ IF req.authState
     THEN /\ authPath' = "legacy"
          /\ \/ /\ contextKind' = "legacy"
                /\ pc' = "page"
                /\ UNCHANGED error
             \/ /\ \E m \in ExternalErrors : Raise(m)
                /\ UNCHANGED contextKind
     ELSE IF req.credentials = "token"
     THEN /\ authPath' = "oauth"
          /\ \/ /\ contextKind' = "oauth"
                /\ pc' = "page"
                /\ UNCHANGED error
             \/ /\ \E m \in TokenErrors : Raise(MsgAuthFailedPrefix \o m)
                /\ UNCHANGED contextKind
     ELSE /\ Raise(MsgNoValidAuth)
          /\ UNCHANGED <<authPath, contextKind>>
  /\ UNCHANGED <<server, req, authFiles, envCreds, platform, browserVar,
                 browserState, closeCalls, setupLeak, calls, result, verified,
                 unhandled, responses>>
  /\ Step("authenticate")
  /\ UNCHANGED <<access, peer, store, query>>

\* lines 244-257: the choice of the authentication method
OaAuthenticate ==
  /\ server = "oauth"
  /\ pc = "authenticate"
  /\ IF req.credentials = "token"
     THEN /\ authPath' = "oauth"
          /\ \/ /\ contextKind' = "oauth"
                /\ pc' = "page"
                /\ UNCHANGED error
             \/ /\ \E m \in TokenErrors : Raise(MsgAuthFailedPrefix \o m)
                /\ UNCHANGED contextKind
     ELSE IF req.authState
     THEN /\ authPath' = "legacy"
          /\ \/ /\ contextKind' = "legacy"
                /\ pc' = "page"
                /\ UNCHANGED error
             \/ /\ \E m \in ExternalErrors : Raise(m)
                /\ UNCHANGED contextKind
     ELSE /\ Raise(MsgNoValidAuth)
          /\ UNCHANGED <<authPath, contextKind>>
  /\ UNCHANGED <<server, req, authFiles, envCreds, platform, browserVar,
                 browserState, closeCalls, setupLeak, calls, result, verified,
                 unhandled, responses>>
  /\ Step("authenticate")
  /\ UNCHANGED <<access, peer, store, query>>

\* line 259: the page of the context
OaPage ==
  /\ server = "oauth"
  /\ pc = "page"
  /\ \/ pc' = "goto" /\ UNCHANGED error
     \/ \E m \in ExternalErrors : Raise(m)
  /\ UNCHANGED <<server, req, authFiles, envCreds, platform, browserVar,
                 browserState, closeCalls, authPath, contextKind, setupLeak,
                 calls, result, verified, unhandled, responses>>
  /\ Step("page")
  /\ UNCHANGED <<access, peer, store, query>>

\* lines 261-263: page.goto(docUrl)
OaGoto ==
  /\ server = "oauth"
  /\ pc = "goto"
  /\ \/ pc' = "waitLoad" /\ UNCHANGED error
     \/ \E m \in ExternalErrors : Raise(m)
  /\ UNCHANGED <<server, req, authFiles, envCreds, platform, browserVar,
                 browserState, closeCalls, authPath, contextKind, setupLeak,
                 calls, result, verified, unhandled, responses>>
  /\ Step("goto")
  /\ UNCHANGED <<access, peer, store, query>>

\* lines 265-267: docPage.waitForDocumentLoad(), a method of GoogleDocsPage only
OaWaitLoad ==
  /\ server = "oauth"
  /\ pc = "waitLoad"
  /\ IF "waitForDocumentLoad" \notin Methods(platform.pageClass)
     THEN Raise(MsgNotAFunction)
     ELSE \/ pc' = "dispatch" /\ UNCHANGED error
          \/ \E m \in ExternalErrors : Raise(m)
  /\ UNCHANGED <<server, req, authFiles, envCreds, platform, browserVar,
                 browserState, closeCalls, authPath, contextKind, setupLeak,
                 calls, result, verified, unhandled, responses>>
  /\ Step("load")
  /\ UNCHANGED <<access, peer, store, query>>

\* lines 269-281: parse and execute the instruction
OaExecute ==
  /\ server = "oauth"
  /\ pc = "dispatch"
  /\ LET c == OaInstructionCall(req.instruction)
     IN  IF c.op \notin Methods(platform.pageClass)
         THEN /\ Raise(MsgNotAFunction)
              /\ UNCHANGED calls
         ELSE /\ calls' = Append(calls, c)
              /\ \/ pc' = "respond" /\ UNCHANGED error
                 \/ \E m \in CallErrors(c) : Raise(m)
  /\ UNCHANGED <<server, req, authFiles, envCreds, platform, browserVar,
                 browserState, closeCalls, authPath, contextKind, setupLeak,
                 result, verified, unhandled, responses>>
  /\ Step("dispatch")
  /\ UNCHANGED <<access, peer, store, query>>

\* lines 283-289: the success response
OaRespond ==
  /\ server = "oauth"
  /\ pc = "respond"
  /\ responses' = Append(responses,
       Response(200, TRUE, FALSE, platform.name, "absent", "none",
                OaAuthMethod(req.credentials), <<>>))
  /\ pc' = "finally"
  /\ UNCHANGED <<server, req, authFiles, envCreds, platform, browserVar,
                 browserState, closeCalls, authPath, contextKind, setupLeak,
                 calls, result, verified, error, unhandled>>
  /\ Step("respond")
  /\ UNCHANGED <<access, peer, store, query>>

\* a catch block that answers with a fixed message instead of error.message
OaCatch_GenericMessage ==
  /\ server = "oauth"
  /\ pc = "catch"
  /\ responses' = Append(responses,
       Response(500, FALSE, FALSE, "absent", "absent", "none",
                OaAuthMethod(req.credentials), MsgAutomationPrefix))
  /\ pc' = "finally"
  /\ UNCHANGED <<server, req, authFiles, envCreds, platform, browserVar,
                 browserState, closeCalls, authPath, contextKind, setupLeak,
                 calls, result, verified, error, unhandled>>
  /\ Step("catch")
  /\ UNCHANGED <<access, peer, store, query>>

\* lines 291-297: the catch block
OaCatch ==
  /\ server = "oauth"
  /\ pc = "catch"
  /\ responses' = Append(responses,
       Response(500, FALSE, FALSE, "absent", "absent", "none",
                OaAuthMethod(req.credentials), MsgAutomationPrefix \o error))
  /\ pc' = "finally"
  /\ UNCHANGED <<server, req, authFiles, envCreds, platform, browserVar,
                 browserState, closeCalls, authPath, contextKind, setupLeak,
                 calls, result, verified, error, unhandled>>
  /\ Step("catch")
  /\ UNCHANGED <<access, peer, store, query>>

\* lines 298-307: the finally block; context.close() and browser.close() are
\* awaited outside any try, so an exception of either leaves the handler
OaFinally ==
  /\ server = "oauth"
  /\ pc = "finally"
  /\ \/ /\ contextKind # "none"
        /\ unhandled' = TRUE
        /\ UNCHANGED <<closeCalls, browserState>>
     \/ IF browserVar
        THEN /\ closeCalls' = closeCalls + 1
             /\ \/ browserState' = "closed" /\ UNCHANGED unhandled
                \/ browserState' \in {"closed", "open"} /\ unhandled' = TRUE
        ELSE UNCHANGED <<closeCalls, browserState, unhandled>>
  /\ pc' = "done"
  /\ UNCHANGED <<server, req, authFiles, envCreds, platform, browserVar,
                 authPath, contextKind, setupLeak, calls, result, verified,
                 error, responses>>
  /\ Step("teardown")
  /\ UNCHANGED <<access, peer, store, query>>

NextOAuth ==
  \/ OaValidate
  \/ OaLaunch
  \/ OaAuthenticate
  \/ OaPage
  \/ OaGoto
  \/ OaWaitLoad
  \/ OaExecute
  \/ OaRespond
  \/ OaCatch
  \/ OaFinally

SpecOAuth == InitOAuth /\ [][NextOAuth]_vars


\* ------------------------------------------------------------------------
\* Platform detection of index.js over a wider set of URLs
\* ------------------------------------------------------------------------
DetHosts ==
  { HostDocs, HostSlides, HostNotion, HostWwwNotion, <<"D","o","c","s",".","G","o","o","g","l","e",".","C","O","M">>,
    <<"i","n","v","a","l","i","d","-","p","l","a","t","f","o","r","m",".","c","o","m">>, <<"e","x","a","m","p","l","e",".","c","o","m">>, <<"c","o","n","t","o","s","o",".","s","h","a","r","e","p","o","i","n","t",".","c","o","m">>,
    <<"m","y","n","o","t","i","o","n",".","s","o",".","e","v","i","l",".","c","o","m">> }

DetPaths ==
  { <<>>, <<"/","d","o","c","u","m","e","n","t","/","d","/","1","/","e","d","i","t">>, <<"/","p","r","e","s","e","n","t","a","t","i","o","n","/","d","/","1">>, <<"/","s","p","r","e","a","d","s","h","e","e","t","s","/","d","/","1">>,
    <<"/","f","o","r","m","s","/","d","/","1">>, <<"/","n","o","t","i","o","n",".","s","o">>, <<"/","?","n","e","x","t","=","d","o","c","s",".","g","o","o","g","l","e",".","c","o","m","/","d","o","c","u","m","e","n","t">> }

\* the string "https://"
SchemeHttps == <<"h","t","t","p","s",":","/","/">>

DetUrls == {SchemeHttps \o h \o p : h \in DetHosts, p \in DetPaths} \cup {UrlNotAUrl}

InitDetect ==
  /\ server = "index"
  /\ \E u \in DetUrls, i \in {<<>>, InstrHello} :
       req = Request(u, i, ActAuto, <<>>, <<>>, <<>>, "absent", FALSE)
  /\ pc = "start"
  /\ authFiles = {}
  /\ envCreds = {}
  /\ platform = NoPlatform
  /\ InitLocals
  /\ peer = NoPeer
  /\ store = {}

NextDetect ==
  \/ IdxValidate
  \/ IdxDetect

SpecDetect == InitDetect /\ [][NextDetect]_vars

\* ------------------------------------------------------------------------
\* The /edit-doc handlers of index.js and of the OAuth worker together
\* ------------------------------------------------------------------------
InitEditDoc == InitIndex \/ InitOAuth

NextEditDoc == NextIndex \/ NextOAuth

SpecEditDoc == InitEditDoc /\ [][NextEditDoc]_vars

\* ------------------------------------------------------------------------
\* The /edit-doc handler of the lookup-key server (unnamed/part_003) and
\* getCredentials of the Supabase service (unnamed/part_006)
\* ------------------------------------------------------------------------
LkUsers == {"user_1", "user_2"}

\* values of the column platform in the table user_credentials
LkPlatformKeys == {"google", "notion", "undefined"}

LkUrls == {<<>>, UrlDocs, UrlSlides, UrlNotion, UrlInvalidPlatform, NumberValue}

LkInstructions == {<<>>, InstrHello}

\* req.body of the lookup-key server
LookupRequest(docUrl, instruction, userId) ==
  [docUrl |-> docUrl, instruction |-> instruction, userId |-> userId]

\* the value of platform.type: a property the object does not have reads
\* as undefined
PlatformType(p) == IF "type" \in DOMAIN p THEN p.type ELSE "undefined"

\* the fields of a response body of the lookup-key server (platform is
\* "absent" where the body has no such field or its value is undefined;
\* loginUrl is the pair of its query parameters userId and platform)
LkResponse(status, success, platformField, loginUrl, message) ==
  [status |-> status, success |-> success, platform |-> platformField,
   loginUrl |-> loginUrl, error |-> message]

\* the string "Authentication required for <name>."
MsgAuthRequired(name) ==
  <<"A","u","t","h","e","n","t","i","c","a","t","i","o","n"," ","r","e","q","u","i","r","e","d"," ","f","o","r"," ">> \o NameChars(name) \o <<".">>

\* the string "An error occurred: "
MsgErrorPrefix == <<"A","n"," ","e","r","r","o","r"," ","o","c","c","u","r","r","e","d",":"," ">>

\* the string "Failed to fetch credentials from Supabase."
MsgStoreFailed == <<"F","a","i","l","e","d"," ","t","o"," ","f","e","t","c","h"," ","c","r","e","d","e","n","t","i","a","l","s"," ","f","r","o","m"," ","S","u","p","a","b","a","s","e",".">>

\* the string "docPage.navigate is not a function"
MsgNavigateNotAFunction == <<"d","o","c","P","a","g","e",".","n","a","v","i","g","a","t","e"," ","i","s"," ","n","o","t"," ","a"," ","f","u","n","c","t","i","o","n">>

\* getCredentials(userId, platformArg): "blob" for the row's auth_state,
\* "null" when no row matches (code PGRST116), "error" for any other error
\* of the store
GetCredentials(userId, platformArg) ==
  {"error"} \cup (IF <<userId, platformArg>> \in store THEN {"blob"} ELSE {"null"})

InitLookup ==
  /\ server = "lookup"
  /\ \E u \in LkUrls, i \in LkInstructions, w \in LkUsers \cup {""} :
       req = LookupRequest(u, i, w)
  /\ pc = "start"
  /\ authFiles = {}
  /\ envCreds = {}
  /\ platform = NoPlatform
  /\ InitLocals
  /\ peer = NoPeer
  /\ store \in SUBSET (LkUsers \X LkPlatformKeys)

\* lines 135-151
LkValidate ==
  /\ server = "lookup"
  /\ pc = "start"
  /\ IF req.docUrl = <<>> \/ req.instruction = <<>> \/ req.userId = ""
     THEN /\ responses' = Append(responses, LkResponse(400, FALSE, "absent", NoQuery, <<>>))
          /\ pc' = "done"
          /\ steps' = steps \o <<"validate">>
          /\ UNCHANGED platform
     ELSE /\ platform' = DetectPlatform(req.docUrl)
          /\ steps' = steps \o <<"validate", "detect">>
          /\ IF platform' = NoPlatform
             THEN /\ responses' = Append(responses, LkResponse(400, FALSE, "absent", NoQuery, <<>>))
                  /\ pc' = "done"
             ELSE /\ pc' = "credentials"
                  /\ UNCHANGED responses
  /\ UNCHANGED <<server, req, authFiles, envCreds, browserVar, browserState,
                 closeCalls, authPath, contextKind, setupLeak, calls, result,
                 verified, error, unhandled>>
  /\ UNCHANGED <<access, peer, store, query>>

\* lines 155-163
LkGetCredentials ==
  /\ server = "lookup"
  /\ pc = "credentials"
  /\ query' = <<req.userId, PlatformType(platform)>>
  /\ \E authState \in GetCredentials(req.userId, PlatformType(platform)) :
       CASE authState = "error" ->
              /\ Raise(MsgStoreFailed)
              /\ UNCHANGED <<responses, authPath>>
         [] authState = "null" ->
              /\ responses' = Append(responses,
                   LkResponse(401, FALSE,
                              IF PlatformType(platform) = "undefined" THEN "absent"
                              ELSE PlatformType(platform),
                              <<req.userId, PlatformType(platform)>>,
                              MsgAuthRequired(platform.name)))
              /\ pc' = "done"
              /\ UNCHANGED <<error, authPath>>
         [] OTHER ->
              /\ authPath' = "stored"
              /\ pc' = "launch"
              /\ UNCHANGED <<responses, error>>
  /\ UNCHANGED <<server, req, authFiles, envCreds, platform, browserVar,
                 browserState, closeCalls, contextKind, setupLeak, calls,
                 result, verified, unhandled>>
  /\ Step("credentials")
  /\ UNCHANGED <<access, peer, store>>

\* lines 165-173: the persistent context is held by the constant context;
\* the variable browser is never assigned
LkLaunch ==
  /\ server = "lookup"
  /\ pc = "launch"
  /\ \/ /\ browserState' = "open"
        /\ contextKind' = "stored"
        /\ pc' = "page"
        /\ UNCHANGED error
     \/ /\ \E e \in ExternalErrors : Raise(e)
        /\ UNCHANGED <<browserState, contextKind>>
  /\ UNCHANGED <<server, req, authFiles, envCreds, platform, browserVar,
                 closeCalls, authPath, setupLeak, calls, result, verified,
                 unhandled, responses>>
  /\ Step("launch")
  /\ UNCHANGED <<access, peer, store, query>>

\* lines 175-187: the page object, docPage.navigate, docPage.executeInstruction,
\* res.json and context.close(); a method the class does not define raises
\* a TypeError
LkRun ==
  /\ server = "lookup"
  /\ pc = "page"
  /\ IF "navigate" \notin Methods(platform.pageClass)
     THEN /\ Raise(MsgNavigateNotAFunction)
          /\ UNCHANGED <<calls, responses, browserState, closeCalls>>
     ELSE \/ /\ \E e \in ExternalErrors : Raise(e)
             /\ calls' = Append(calls, [op |-> "navigate", args |-> <<req.docUrl>>])
             /\ UNCHANGED <<responses, browserState, closeCalls>>
          \/ /\ "executeInstruction" \notin Methods(platform.pageClass)
             /\ Raise(MsgNotAFunction)
             /\ calls' = Append(calls, [op |-> "navigate", args |-> <<req.docUrl>>])
             /\ UNCHANGED <<responses, browserState, closeCalls>>
          \/ /\ "executeInstruction" \in Methods(platform.pageClass)
             /\ calls' = calls \o <<[op |-> "navigate", args |-> <<req.docUrl>>],
                                    [op |-> "executeInstruction", args |-> <<req.instruction>>]>>
             /\ responses' = Append(responses, LkResponse(200, TRUE, "absent", NoQuery, <<>>))
             /\ closeCalls' = closeCalls + 1
             /\ \/ /\ browserState' = "closed"
                   /\ pc' = "done"
                   /\ UNCHANGED error
                \/ /\ \E e \in ExternalErrors : Raise(e)
                   /\ UNCHANGED browserState
  /\ UNCHANGED <<server, req, authFiles, envCreds, platform, browserVar,
                 authPath, contextKind, setupLeak, result, verified, unhandled>>
  /\ Step("goto")
  /\ UNCHANGED <<access, peer, store, query>>

\* lines 189-193: browser is undefined, so nothing is closed; sending a
\* second response raises inside the catch block
LkCatch ==
  /\ server = "lookup"
  /\ pc = "catch"
  /\ IF responses = <<>>
     THEN /\ responses' = Append(responses,
               LkResponse(500, FALSE, "absent", NoQuery, MsgErrorPrefix \o error))
          /\ UNCHANGED unhandled
     ELSE /\ unhandled' = TRUE
          /\ UNCHANGED responses
  /\ pc' = "done"
  /\ UNCHANGED <<server, req, authFiles, envCreds, platform, browserVar,
                 browserState, closeCalls, authPath, contextKind, setupLeak,
                 calls, result, verified, error>>
  /\ Step("catch")
  /\ UNCHANGED <<access, peer, store, query>>

NextLookup ==
  \/ LkValidate
  \/ LkGetCredentials
  \/ LkLaunch
  \/ LkRun
  \/ LkCatch

SpecLookup == InitLookup /\ [][NextLookup]_vars

\* ------------------------------------------------------------------------
\* Two /edit-doc requests in flight on the index.js server: the handler of
\* one request, and createAuthenticatedContext of the other (the peer).
\* The files auth-states/<platform>-auth.json are the state both can reach.
\* The handler runs without interruption from hasAuthentication (line 95)
\* to the first await of setupCloudAuthentication, so the peer takes no
\* step while the request is at "setup".
\* ------------------------------------------------------------------------
ConcRequests ==
  {Request(u, InstrHello, ActAuto, <<>>, <<>>, <<>>, "absent", FALSE) : u \in {UrlDocs, UrlNotion}}

InitConc ==
  /\ server = "index"
  /\ req \in ConcRequests
  /\ pc = "start"
  /\ authFiles \in SUBSET AuthPlatforms
  /\ envCreds \in SUBSET AuthPlatforms
  /\ platform = NoPlatform
  /\ InitLocals
  /\ \E k \in {"google", "notion"} :
       peer = [pc |-> "auth", authKey |-> k, reads |-> {}, writes |-> {}]
  /\ store = {}

\* the peer's createAuthenticatedContext, lines 95-98 and 102, with
\* autoSetupAuthentication (cloud-auth.js 207-220) up to its await
PeerAuthCheck ==
  /\ peer.pc = "auth"
  /\ pc # "setup"
  /\ LET missingAuth == {p \in AuthPlatforms : p \notin authFiles /\ p \in envCreds}
     IN  peer' = IF peer.authKey \in authFiles
                 THEN [peer EXCEPT !.pc = "context", !.reads = @ \cup {peer.authKey}]
                 ELSE IF missingAuth = {}
                 THEN [peer EXCEPT !.pc = "done", !.reads = AuthPlatforms]
                 ELSE [peer EXCEPT !.pc = "setup", !.reads = AuthPlatforms]
  /\ UNCHANGED <<server, req, pc, authFiles, envCreds, platform, browserVar,
                 browserState, closeCalls, authPath, contextKind, setupLeak,
                 calls, result, verified, error, unhandled, responses, steps,
                 access, store, query>>

\* the peer's setupCloudAuthentication (cloud-auth.js 29-90) and the check of
\* line 102: every platform with credentials is logged in and its file written
PeerAutoSetup ==
  /\ peer.pc = "setup"
  /\ pc # "setup"
  /\ \E written \in SUBSET envCreds :
       /\ authFiles' = authFiles \cup written
       /\ peer' = [peer EXCEPT !.writes = @ \cup written,
                               !.pc = IF peer.authKey \in authFiles' THEN "context" ELSE "done"]
  /\ UNCHANGED <<server, req, pc, envCreds, platform, browserVar,
                 browserState, closeCalls, authPath, contextKind, setupLeak,
                 calls, result, verified, error, unhandled, responses, steps,
                 access, store, query>>

\* the peer's browser.newContext({ storageState: authFile }), lines 123-127
PeerNewContext ==
  /\ peer.pc = "context"
  /\ pc # "setup"
  /\ peer' = [peer EXCEPT !.pc = "done", !.reads = @ \cup {peer.authKey}]
  /\ UNCHANGED <<server, req, pc, authFiles, envCreds, platform, browserVar,
                 browserState, closeCalls, authPath, contextKind, setupLeak,
                 calls, result, verified, error, unhandled, responses, steps,
                 access, store, query>>

NextConc ==
  \/ NextIndex
  \/ PeerAuthCheck
  \/ PeerAutoSetup
  \/ PeerNewContext

SpecConc == InitConc /\ [][NextConc]_vars

\* ------------------------------------------------------------------------
\* index.js: app.get("/health")
\* ------------------------------------------------------------------------
\* line 394: the platforms the endpoint reports on, in order
HealthPlatforms == <<"google", "notion", "microsoft">>

\* line 396: the key under which a platform is reported
HealthPlatformName(p) == GetPlatformName(IF p = "google" THEN "google-docs" ELSE p)

\* cloud-auth.js hasAuthentication(platform)
HasAuthentication(p) == p \in authFiles

\* lines 390-402: the object authStatus after the forEach; a later
\* assignment to the same key replaces an earlier one
HealthAuthStatus ==
  LET names == {HealthPlatformName(HealthPlatforms[k]) : k \in 1..Len(HealthPlatforms)}
      last(n) == SetMax({k \in 1..Len(HealthPlatforms) : HealthPlatformName(HealthPlatforms[k]) = n})
  IN  [n \in names |-> HasAuthentication(HealthPlatforms[last(n)])]

\* lines 398-401: hasEmail and hasPassword of each reported key (the model
\* sets both variables of a platform together)
HealthEnvCredentials ==
  LET names == {HealthPlatformName(HealthPlatforms[k]) : k \in 1..Len(HealthPlatforms)}
      last(n) == SetMax({k \in 1..Len(HealthPlatforms) : HealthPlatformName(HealthPlatforms[k]) = n})
  IN  [n \in names |-> HealthPlatforms[last(n)] \in envCreds]

InitHealth ==
  /\ server = "health"
  /\ req = [method |-> "GET"]
  /\ pc = "start"
  /\ authFiles \in SUBSET AuthPlatforms
  /\ envCreds \in SUBSET AuthPlatforms
  /\ platform = NoPlatform
  /\ InitLocals
  /\ peer = NoPeer
  /\ store = {}

\* lines 389-427
Health ==
  /\ server = "health"
  /\ pc = "start"
  /\ responses' = Append(responses,
       [status |-> 200, health |-> "healthy", authentication |-> HealthAuthStatus,
        credentials |-> HealthEnvCredentials])
  /\ access' = [access EXCEPT !.reads = AuthPlatforms]
  /\ pc' = "done"
  /\ UNCHANGED <<server, req, authFiles, envCreds, platform, browserVar,
                 browserState, closeCalls, authPath, contextKind, setupLeak,
                 calls, result, verified, error, unhandled>>
  /\ Step("respond")
  /\ UNCHANGED <<peer, store, query>>

NextHealth == Health

SpecHealth == InitHealth /\ [][NextHealth]_vars

\* ------------------------------------------------------------------------
\* The /edit-doc handlers of index.js and of the lookup-key server with
\* request bodies whose docUrl may be a JSON number
\* ------------------------------------------------------------------------
InitAnyBody ==
  \/ /\ server = "index"
     /\ \E u \in {<<>>, UrlDocs, UrlInvalidPlatform, NumberValue}, i \in {<<>>, InstrHello} :
          req = Request(u, i, ActAuto, <<>>, <<>>, <<>>, "absent", FALSE)
     /\ pc = "start"
     /\ authFiles \in SUBSET AuthPlatforms
     /\ envCreds \in SUBSET AuthPlatforms
     /\ platform = NoPlatform
     /\ InitLocals
     /\ peer = NoPeer
     /\ store = {}
  \/ InitLookup

NextAnyBody == NextIndex \/ NextLookup

SpecAnyBody == InitAnyBody /\ [][NextAnyBody]_vars

\* ------------------------------------------------------------------------
\* The /edit-doc handler of the local server (unnamed/part_005): its
\* validation, detectPlatform and createAuthenticatedContext; from
\* chromium.launch on its code is that of index.js, and the actions
\* IdxLaunch to IdxFinally serve both
\* ------------------------------------------------------------------------
\* the string "Authentication file not found for <name>. Please run: node setup-auth.js"
MsgAuthFileNotFound(name) ==
  <<"A","u","t","h","e","n","t","i","c","a","t","i","o","n"," ","f","i","l","e"," ","n","o","t"," ","f","o","u","n","d"," ","f","o","r"," ">> \o NameChars(name) \o
  <<"."," ","P","l","e","a","s","e"," ","r","u","n",":"," ","n","o","d","e"," ","s","e","t","u","p","-","a","u","t","h",".","j","s">>

LocUrls == {<<>>, UrlDocs, UrlSlides, UrlNotion, UrlInvalidPlatform}

InitLocal ==
  /\ server = "local"
  /\ \E u \in LocUrls, i \in {<<>>, InstrHello, InstrTitle}, a \in {ActAuto, ActTypeText, ActDelete} :
       req = Request(u, i, a, <<>>, <<>>, <<>>, "absent", FALSE)
  /\ pc = "start"
  /\ authFiles \in SUBSET AuthPlatforms
  /\ envCreds = {}
  /\ platform = NoPlatform
  /\ InitLocals
  /\ peer = NoPeer
  /\ store = {}

\* part_005 lines 87-111: validation and detectPlatform
LocValidate ==
  /\ server = "local"
  /\ pc = "start"
  /\ IF req.docUrl = <<>> \/ req.instruction = <<>>
     THEN /\ responses' = Append(responses, BadRequest)
          /\ pc' = "done"
          /\ steps' = steps \o <<"validate">>
          /\ UNCHANGED platform
     ELSE /\ platform' = DetectPlatform(req.docUrl)
          /\ steps' = steps \o <<"validate", "detect">>
          /\ IF platform' = NoPlatform
             THEN /\ responses' = Append(responses, BadRequest)
                  /\ pc' = "done"
             ELSE /\ pc' = "auth"
                  /\ UNCHANGED responses
  /\ UNCHANGED <<server, req, authFiles, envCreds, browserVar, browserState,
                 closeCalls, authPath, contextKind, setupLeak, calls, result,
                 verified, error, unhandled>>
  /\ UNCHANGED <<access, peer, store, query>>

\* part_005 createAuthenticatedContext, lines 57-62: the auth file must exist
LocAuthCheck ==
  /\ server = "local"
  /\ pc = "auth"
  /\ authPath' = "stored"
  /\ access' = [access EXCEPT !.reads = @ \cup {platform.authKey}]
  /\ IF platform.authKey \in authFiles
     THEN pc' = "launch" /\ UNCHANGED error
     ELSE Raise(MsgAuthFileNotFound(platform.name))
  /\ UNCHANGED <<server, req, authFiles, envCreds, platform, browserVar,
                 browserState, closeCalls, contextKind, setupLeak, calls,
                 result, verified, unhandled, responses>>
  /\ Step("credentials")
  /\ UNCHANGED <<peer, store, query>>

NextLocal ==
  \/ LocValidate
  \/ LocAuthCheck
  \/ IdxLaunch
  \/ IdxNewContext
  \/ IdxNewPage
  \/ IdxGoto
  \/ IdxWaitLoad
  \/ IdxIsLoggedIn
  \/ IdxDispatch
  \/ IdxVerify
  \/ IdxRespond
  \/ IdxCatch
  \/ IdxFinally

SpecLocal == InitLocal /\ [][NextLocal]_vars

\* ------------------------------------------------------------------------
\* Properties
\* ------------------------------------------------------------------------
Responded(status) == Len(responses) = 1 /\ responses[1].status = status

\* C1: in the /edit-doc handler of index.js, once the browser has been
\* launched for a request, browser.close() is invoked exactly once before
\* the handler finishes, on every exit path.
C1_BrowserClosedExactlyOnce ==
  (server = "index" /\ pc = "done" /\ browserState # "none") => closeCalls = 1

\* C2: in the OAuth worker, a request that carries an access token and an
\* authState authenticates through authenticateWithToken whenever it
\* authenticates, and no context is ever restored from authState for it.
C2_TokenTakesPrecedence ==
  (server = "oauth" /\ req.credentials = "token" /\ req.authState) =>
    /\ authPath # "legacy"
    /\ contextKind # "legacy"
    /\ pc \in {"page", "goto", "waitLoad", "dispatch", "respond"} =>
         (authPath = "oauth" /\ contextKind = "oauth")

C2_Witness ==
  /\ server = "oauth"
  /\ req.credentials = "token"
  /\ req.authState
  /\ authPath = "oauth"
  /\ contextKind = "oauth"
  /\ pc = "done"
  /\ Responded(200)

\* C3: a request with docUrl and instruction but no usable credential (a
\* credentials object without access_token included) is answered with 401
\* and the login-required flag, never with 500.
C3_MissingCredentialIs401 ==
  (server = "oauth" /\ pc = "done" /\ req.docUrl # <<>> /\ req.instruction # <<>>
     /\ req.credentials # "token" /\ ~req.authState) =>
    (Responded(401) /\ responses[1].loginRequired)

\* the first keyword rule, in the order title/heading, list/bullet,
\* bold/italic, replace+with, default, whose keywords occur in the instruction
C4_FirstRule(instruction) ==
  LET low == ToLowerCase(instruction)
  IN  IF Includes(low, KwTitle) \/ Includes(low, KwHeading) THEN "title"
      ELSE IF Includes(low, KwList) \/ Includes(low, KwBullet) THEN "list"
      ELSE IF Includes(low, KwBold) \/ Includes(low, KwItalic) THEN "format"
      ELSE IF Includes(low, KwReplace) /\ Includes(low, KwWith) THEN "replace"
      ELSE "default"

C4_ActionOf(rule) ==
  CASE rule = "title" -> "Title/Heading set"
    [] rule = "list" -> "List created"
    [] rule = "format" -> "formatting applied"
    [] rule = "replace" -> "Text replaced"
    [] OTHER -> "Text added"

\* C4 as stated: with action auto the first matching keyword rule decides
\* the classification, on every platform.
C4_FirstRuleDecides ==
  pc = "returned" => result.action = C4_ActionOf(C4_FirstRule(req.instruction))

\* C4, amended: the first matching rule decides, except that the
\* replace+with rule decides on Google Docs only; on another platform an
\* instruction whose first matching rule is replace+with gets the default
\* add-text.
C4_FirstRuleDecidesReplaceOnDocs ==
  pc = "returned" =>
    LET rule == C4_FirstRule(req.instruction)
    IN  result.action =
          IF rule = "replace" /\ platform.name # GoogleDocs
          THEN "Text added" ELSE C4_ActionOf(rule)

C4_Witness ==
  /\ pc = "returned"
  /\ req.instruction = InstrTitleAndList
  /\ C4_FirstRule(req.instruction) = "title"
  /\ Includes(ToLowerCase(req.instruction), KwList)
  /\ result.action = "Title/Heading set"

C5_LinesOnly(instruction) ==
  LET lines == SplitLines(instruction)
  IN  Len(lines) >= 2 /\ \A k \in 1..Len(lines) : Trim(lines[k]) # <<>>

\* C5 as stated: with action auto an instruction of newline-separated
\* non-empty lines and no trigger word is dispatched as a list with one item
\* per line.
C5_LinesBecomeList ==
  (pc = "returned" /\ C4_FirstRule(req.instruction) = "default"
     /\ C5_LinesOnly(req.instruction)) =>
    /\ result.action = "List created"
    /\ platform.name = Notion =>
         calls = <<Call("addBulletList", SplitLines(req.instruction), 0)>>

\* C5, amended: with action auto an instruction without trigger word, its
\* lines notwithstanding, is classified as default text: no list is made,
\* and on Google Docs, Notion and Google Slides the add-text method gets the
\* whole instruction as its one argument.
C5_NoTriggerWordAddsText ==
  (pc = "returned" /\ C4_FirstRule(req.instruction) = "default") =>
    /\ result.action = "Text added"
    /\ \A k \in 1..Len(calls) : calls[k].op # "addBulletList"
    /\ platform.name = GoogleDocs => calls = <<Call("typeText", <<req.instruction>>, 0)>>
    /\ platform.name = Notion => calls = <<Call("addTextBlock", <<req.instruction>>, 0)>>
    /\ platform.name = GoogleSlides => calls = <<Call("addTextBox", <<req.instruction>>, 0)>>

C5_Witness ==
  /\ pc = "returned"
  /\ req.instruction = InstrThreeItems
  /\ C5_LinesOnly(req.instruction)
  /\ platform.name = Notion
  /\ calls = <<Call("addTextBlock", <<InstrThreeItems>>, 0)>>

\* the string "'old version'"
QuotedOld == <<"'","o","l","d"," ","v","e","r","s","i","o","n","'">>
\* the string "'new version'"
QuotedNew == <<"'","n","e","w"," ","v","e","r","s","i","o","n","'">>

\* C6: with action auto on Google Docs, an instruction that matches no
\* earlier rule and contains replace and with is split on those words and
\* findAndReplace gets segment 1 and segment 2, trimmed and otherwise
\* verbatim; the add-text method is not called.
C6_FindAndReplaceSegments ==
  (pc = "returned" /\ platform.name = GoogleDocs
     /\ C4_FirstRule(req.instruction) = "replace") =>
    LET parts == SplitCI(req.instruction, <<KwReplace, KwWith>>)
    IN  /\ Len(parts) >= 3
        /\ calls = <<Call("findAndReplace", <<Trim(parts[2]), Trim(parts[3])>>, 0)>>
        /\ result.action = "Text replaced"
        /\ req.instruction = InstrReplaceQuoted => calls[1].args = <<QuotedOld, QuotedNew>>

C6_Witness ==
  /\ pc = "returned"
  /\ platform.name = GoogleDocs
  /\ req.instruction = InstrReplaceQuoted
  /\ calls = <<Call("findAndReplace", <<QuotedOld, QuotedNew>>, 0)>>

\* C7: a replaceAll request against Notion fails; it never gets a success
\* response without an adapter operation having been performed.
C7_ReplaceAllOnNotionFails ==
  (server = "index" /\ platform.name = Notion /\ ToLowerCase(req.action) = KeyReplaceAll) =>
    \A k \in 1..Len(responses) : ~responses[k].success

AddTextOps == {"typeText", "addTextBlock", "addTextBox"}

\* the add-text operation returned normally and the verification failed
C8_Case ==
  /\ server = "index"
  /\ pc \in {"finally", "done"}
  /\ verified = "failed"
  /\ Len(calls) = 1
  /\ calls[1].op \in AddTextOps

C9_InvalidRequestRejected ==
  (server = "index" /\ pc = "done"
     /\ (\/ req.docUrl = <<>>
         \/ req.instruction = <<>>
         \/ DetectFileTypeFromUrl(req.docUrl) = NoFileType)) =>
    (Responded(400) /\ browserState = "none")

RegistryHosts == {SUPPORTED_PLATFORMS[k].domain : k \in 1..Len(SUPPORTED_PLATFORMS)}

\* C10: a URL whose host is a registry host is detected as a platform and
\* not rejected with 400; a URL whose host neither equals nor contains a
\* registry host is unrecognized and answered with 400.
C10_HostDecidesDetection ==
  (server = "index" /\ pc \notin {"start", "detect"} /\ req.instruction # <<>>
     /\ ParseUrl(req.docUrl).valid) =>
    LET hostname == ParseUrl(req.docUrl).hostname
    IN  /\ hostname \in RegistryHosts => (platform # NoPlatform /\ ~Responded(400))
        /\ (\A h \in RegistryHosts : ~Includes(hostname, h)) =>
             (platform = NoPlatform /\ Responded(400))

\* the platform object the handler of index.js builds for a docUrl
C11_PlatformOf(url) ==
  LET d == DetectFileTypeFromUrl(url)
  IN  IF d = NoFileType THEN NoPlatform
      ELSE [name |-> GetPlatformName(d.type), authKey |-> d.platform,
            pageClass |-> GetPageClass(d.type)]

\* C11: the platform chosen for an /edit-doc request is a function of the
\* host of the URL only: it is the platform the registry gives for the host
\* (exact match, then containment, first entry wins), and every URL with the
\* same host gets the same platform, or is unrecognized as well.
C11_PlatformIsFunctionOfHost ==
  (server = "index" /\ pc \notin {"start", "detect"} /\ req.instruction # <<>>
     /\ ParseUrl(req.docUrl).valid) =>
    /\ platform.name = DetectPlatform(req.docUrl).name
    /\ \A u \in DetUrls :
         (ParseUrl(u).valid /\ ParseUrl(u).hostname = ParseUrl(req.docUrl).hostname) =>
           C11_PlatformOf(u) = platform

\* C12: a URL https://docs.google.com/presentation/... is detected as Google
\* Slides, by the detector of index.js and by the registry detectPlatform of
\* the other servers, and action addHeading on it invokes setSlideTitle.
C12_PresentationUrlIsSlides ==
  (req.docUrl = UrlDocsPresentation /\ platform # NoPlatform) =>
    /\ platform.name = GoogleSlides
    /\ platform.pageClass = "GoogleSlidesPage"
    /\ (server = "index" /\ ToLowerCase(req.action) = KeyAddHeading /\ pc = "verify") =>
         calls = <<Call("setSlideTitle", <<req.instruction>>, 0)>>

\* position of the first occurrence of step s in steps, 0 when it is absent
C13_Pos(s) ==
  LET at == {k \in 1..Len(steps) : steps[k] = s}
  IN  IF at = {} THEN 0 ELSE SetMin(at)

\* step a has been started before step b, whenever b has been started
C13_Before(a, b) == C13_Pos(b) # 0 => (C13_Pos(a) # 0 /\ C13_Pos(a) < C13_Pos(b))

C13_CredentialSteps == {"credentials", "setup", "authenticate"}

C13_Rank(srv, s) ==
  IF srv = "oauth"
  THEN CASE s = "validate" -> 1 [] s = "credentials" -> 2 [] s = "detect" -> 3
         [] s = "launch" -> 4 [] s = "authenticate" -> 5 [] s = "page" -> 6
         [] s = "goto" -> 7 [] s = "load" -> 8 [] s = "dispatch" -> 9
         [] s = "respond" -> 10 [] s = "catch" -> 10 [] s = "teardown" -> 11
         [] OTHER -> 0
  ELSE CASE s = "validate" -> 1 [] s = "detect" -> 2 [] s = "credentials" -> 3
         [] s = "setup" -> 4 [] s = "launch" -> 5 [] s = "context" -> 6
         [] s = "page" -> 7 [] s = "goto" -> 8 [] s = "load" -> 9
         [] s = "loggedIn" -> 10 [] s = "dispatch" -> 11 [] s = "verify" -> 12
         [] s = "respond" -> 13 [] s = "catch" -> 13 [] s = "teardown" -> 14
         [] OTHER -> 0

C14_Answered401 == pc = "done" /\ Responded(401)

\* the request was answered with the failure of authenticateWithToken
C14_TokenRejected ==
  /\ server = "oauth"
  /\ pc = "done"
  /\ Len(responses) = 1
  /\ Includes(responses[1].error, MsgAuthFailedPrefix)

C15_TokenValidationFailed ==
  /\ server = "oauth"
  /\ pc \in {"finally", "done"}
  /\ authPath = "oauth"
  /\ contextKind = "none"

C16_StoreQueriedByPlatform ==
  (server = "lookup" /\ query # NoQuery) =>
    /\ query = <<req.userId, platform.authKey>>
    /\ (pc = "done" /\ error # MsgStoreFailed /\ <<req.userId, platform.authKey>> \notin store) =>
         /\ Responded(401)
         /\ responses[1].platform = platform.authKey
         /\ responses[1].loginUrl = <<req.userId, platform.authKey>>
    /\ (pc = "done" /\ error = MsgStoreFailed) => Responded(500)
    /\ (pc = "done" /\ Responded(401)) => <<req.userId, platform.authKey>> \notin store

\* C17: concurrent /edit-doc requests share no mutable state: a request
\* neither reads nor writes anything that another in-flight request writes,
\* also when both find the stored authentication missing and run auto-setup.
C17_NoSharedMutableState ==
  /\ access.reads \cap peer.writes = {}
  /\ access.writes \cap (peer.reads \cup peer.writes) = {}

\* C19: GET /health answers status "healthy" with an authentication map of
\* one boolean per platform name /edit-doc serves (Google Docs, Google
\* Slides, Notion), each equal to whether a stored session exists for that
\* platform, and launches no browser.
C19_HealthReportsServedPlatforms ==
  (server = "health" /\ pc = "done") =>
    /\ Responded(200)
    /\ responses[1].health = "healthy"
    /\ browserState = "none"
    /\ DOMAIN responses[1].authentication = {GoogleDocs, GoogleSlides, Notion}
    /\ responses[1].authentication[GoogleDocs] = ("google" \in authFiles)
    /\ responses[1].authentication[GoogleSlides] = ("google" \in authFiles)
    /\ responses[1].authentication[Notion] = ("notion" \in authFiles)

\* C18: for every /edit-doc request and every outcome of the browser,
\* adapter and cleanup calls, the handler sends exactly one HTTP response
\* (never two at any time, one when it has finished) and no exception
\* leaves the handler.
C18_ExactlyOneResponse ==
  /\ Len(responses) <= 1
  /\ ~unhandled
  /\ pc = "done" => Len(responses) = 1

\* the operation an explicit action names on a platform ("none": no
\* operation), as the action reference states it
C20_Op(key, name) ==
  CASE key = KeyTypeText /\ name = GoogleDocs -> "typeText"
    [] key = KeyTypeText /\ name = Notion -> "addTextBlock"
    [] key = KeyTypeText /\ name = GoogleSlides -> "addTextBox"
    [] key = KeyReplaceAll /\ name = GoogleDocs -> "replaceAllText"
    [] key = KeyAddHeading /\ name = Notion -> "addHeading"
    [] key = KeyAddHeading /\ name = GoogleSlides -> "setSlideTitle"
    [] key = KeyAddList /\ name = Notion -> "addBulletList"
    [] key = KeyFormat -> "selectAllAndFormat"
    [] OTHER -> "none"

\* the handler has executed its switch with an action other than auto
C20_ExplicitDispatched ==
  /\ server = "index"
  /\ ToLowerCase(req.action) # ActAuto
  /\ C13_Pos("dispatch") > 0

\* C20: with an explicit action other than auto (compared without regard to
\* case) the keyword rules are not consulted: the operation invoked, if any,
\* is the one the action names on the platform, whatever the instruction
\* says, and it is invoked whenever the page object has it (for format: when
\* options.formatting is given); any other action value gives an
\* 'Unsupported action' error response and no operation.
C20_ExplicitActionHonoredLiterally ==
  C20_ExplicitDispatched =>
    LET key == ToLowerCase(req.action)
        op == C20_Op(key, platform.name)
    IN  IF key \in {KeyTypeText, KeyReplaceAll, KeyAddHeading, KeyAddList, KeyFormat}
        THEN /\ Len(calls) <= 1
             /\ Len(calls) = 1 => calls[1].op = op
             /\ (/\ op \in Methods(platform.pageClass)
                 /\ key = KeyFormat => req.formatting # <<>>) => Len(calls) = 1
             /\ error # MsgUnsupportedAction(req.action)
             /\ result.type \in {"none", "explicit"}
        ELSE /\ calls = <<>>
             /\ error = MsgUnsupportedAction(req.action)
             /\ pc \in {"finally", "done"} =>
                  /\ Responded(500)
                  /\ responses[1].error = MsgUnsupportedAction(req.action)

\* action typeText with an instruction that holds the keyword "title", on
\* Notion: addTextBlock is invoked and the request succeeds
C20_Witness ==
  /\ C20_ExplicitDispatched
  /\ ToLowerCase(req.action) = KeyTypeText
  /\ req.instruction = InstrTitle
  /\ platform.name = Notion
  /\ Len(calls) = 1
  /\ calls[1].op = "addTextBlock"
  /\ pc = "done"
  /\ Responded(200)

\* action delete: no operation and the 'Unsupported action' response
C20_UnsupportedWitness ==
  /\ C20_ExplicitDispatched
  /\ req.action = ActDelete
  /\ pc = "done"
  /\ Responded(500)

\* action format with a formatting of bold, italic or underline has been
\* dispatched on one of the three platforms and no browser call has failed
C21_FormatRan ==
  /\ server = "index"
  /\ ToLowerCase(req.action) = KeyFormat
  /\ ToLowerCase(req.formatting) \in {FmtBold, FmtItalic, FmtUnderline}
  /\ platform.name \in {GoogleDocs, GoogleSlides, Notion}
  /\ C13_Pos("dispatch") > 0
  /\ pc = "done"
  /\ error \notin ExternalErrors

\* C21: action format with options.formatting bold, italic or underline is
\* supported on Google Docs, Google Slides and Notion alike: when every
\* browser call succeeds the adapter's select-all-and-format operation is
\* invoked and the response is 200 success.
C21_FormatSupportedOnAllPlatforms ==
  C21_FormatRan =>
    /\ Responded(200)
    /\ responses[1].success
    /\ Len(calls) = 1
    /\ calls[1].op = "selectAllAndFormat"

\* the OAuth worker has finished a request 'Type hello' for a Notion or
\* Google Slides URL, its credentials were accepted and no browser call failed
C22_TypeRequestRan ==
  /\ server = "oauth"
  /\ platform.name \in {Notion, GoogleSlides}
  /\ req.instruction = InstrTypeHello
  /\ contextKind # "none"
  /\ pc = "done"
  /\ error \notin ExternalErrors

\* C22: in the OAuth worker, for a Notion or Google Slides URL with valid
\* credentials and every browser call succeeding, 'Type <text>' adds the
\* text to the page and the response is 200 success.
C22_TypeSucceedsOnNotionAndSlides ==
  C22_TypeRequestRan =>
    /\ Responded(200)
    /\ responses[1].success
    /\ Len(calls) = 1
    /\ calls[1].args = <<<<"h","e","l","l","o">>>>

\* the step the handler started last ("none": no step yet)
C23_LastStep == IF steps = <<>> THEN "none" ELSE steps[Len(steps)]

\* C23: the adapter's isLoggedIn check never throws: without the logged-in
\* marker it returns false, /edit-doc then answers 401 and the request
\* invokes no content-changing adapter operation.
C23_LoginCheckNeverThrows ==
  server = "index" =>
    /\ C23_LastStep = "loggedIn" =>
         /\ pc \in {"dispatch", "finally"}
         /\ error = NoError
         /\ pc = "finally" => (Responded(401) /\ calls = <<>>)
    /\ (Len(responses) >= 1 /\ responses[1].status = 401) =>
         /\ C13_Pos("loggedIn") > 0
         /\ C13_Pos("dispatch") = 0
         /\ calls = <<>>

\* a request whose login check returned false: answered 401, finished,
\* nothing invoked on the document
C23_Witness ==
  /\ server = "index"
  /\ pc = "done"
  /\ Responded(401)
  /\ C13_Pos("loggedIn") > 0
  /\ calls = <<>>

\* the number of times step s has been started
C24_Count(s) == Cardinality({k \in 1..Len(steps) : steps[k] = s})

C25_SuccessImpliesOperation ==
  (server = "index" /\ Len(responses) >= 1 /\ responses[1].status = 200) =>
    /\ calls # <<>>
    /\ platform.name \notin {GoogleSheets, MicrosoftOffice}

\* the list items the list rule is to pass for an instruction: its lines
\* that are non-empty after trimming and do not hold 'list', each trimmed,
\* in order; without such a line the instruction with list/bullet removed
C26_Items(instruction) ==
  LET lines == SelectSeq(SplitLines(instruction),
                         LAMBDA item : Trim(item) # <<>> /\ ~Includes(ToLowerCase(item), KwList))
  IN  IF lines # <<>> THEN [k \in 1..Len(lines) |-> Trim(lines[k])]
      ELSE <<Trim(ReplaceAllCI(instruction, <<KwList, KwBullet>>))>>

\* C26: in the auto list rule on Notion the items passed to addBulletList are
\* the instruction's lines that are non-empty after trimming and do not hold
\* 'list', each trimmed of leading and trailing whitespace, in their order;
\* without such a line, the single item is the instruction with list/bullet
\* removed and trimmed.
C26_ListItemsAreTrimmedLines ==
  (server = "dispatcher" /\ pc = "returned" /\ platform.name = Notion
     /\ result.action = "List created") =>
    calls = <<Call("addBulletList", C26_Items(req.instruction), 0)>>

\* the request failed because the platform's stored authentication file is
\* missing
C27_AuthFileMissing ==
  \/ server = "index" /\ error = MsgAuthNotConfigured(platform.name)
  \/ server = "local" /\ error = MsgAuthFileNotFound(platform.name)

\* C27: when /edit-doc fails because the platform's stored authentication
\* file is missing, the 500 response's suggestion is to run the
\* authentication setup, never the document-URL or the timeout suggestion.
C27_MissingAuthSuggestsSetup ==
  (C27_AuthFileMissing /\ Len(responses) >= 1) =>
    /\ responses[1].status = 500
    /\ responses[1].suggestion = "auth-setup"

\* C28: in the lookup-key handler the persistent browser context, once
\* launched, is closed on every exit path of the request, also when
\* navigation or instruction execution throws.
C28_PersistentContextClosed ==
  (server = "lookup" /\ pc = "done" /\ contextKind # "none") =>
    /\ closeCalls = 1
    /\ browserState = "closed"

\* C29: the authMethod of a response of the OAuth worker names the
\* authentication path taken: 'oauth' exactly when authenticateWithToken was
\* used, 'legacy' exactly when the context was restored from authState.
C29_AuthMethodNamesPathTaken ==
  server = "oauth" =>
    \A k \in 1..Len(responses) :
      responses[k].authMethod # "absent" =>
        /\ responses[k].authMethod = "oauth" <=> authPath = "oauth"
        /\ responses[k].authMethod = "legacy" <=> authPath = "legacy"

\* C30: when auto-setup of authentication is triggered, the stored session
\* files of the platforms that already have one are left unchanged: only
\* platforms that lack a stored session and have credentials configured are
\* logged in and written.
C30_SetupWritesOnlyMissing ==
  server = "index" =>
    /\ access.overwritten = {}
    /\ access.writes \subseteq envCreds


====
